---- MODULE Spec2Model ----
(***************************************************************************)
(* Model of the chunk-and-dedup core of bulk-ocr: the text package         *)
(* (Normalize, ChunkText, ...) and the dedupe package (exactHashDedupe,    *)
(* simhashDedupe, Dedupe).  Strings are sequences of bytes (0..255), as Go *)
(* strings are; the inputs are ASCII.                                      *)
(***************************************************************************)
EXTENDS Integers, Sequences, FiniteSets, TLC

VARIABLES
    pc,       \* position of the driver that calls the functions
    raw,      \* Normalize: the input string
    once,     \* Normalize(raw)
    twice,    \* Normalize(Normalize(raw))
    chunks,   \* dedupe: the input chunk list
    config,   \* dedupe: the Config handed to Dedupe
    exOut,    \* result of exactHashDedupe(chunks)
    shOut,    \* result of simhashDedupe(chunks, config)
    result,   \* DedupeResult of the first call of Dedupe(chunks, config)
    result2,  \* DedupeResult of a second call of Dedupe(chunks, config)
    validated,       \* the Config after Config.Validate
    srcText,         \* ChunkText: the input text
    minChars,        \* ChunkText: min_chunk_chars
    chunked,         \* ChunkText(srcText, minChars)
    chunkedCRLF,     \* ChunkText of srcText with every line break written \r\n
    chunkedCR,       \* ChunkText of srcText with every line break written \r
    patterns,        \* FilterChrome: the pattern list
    maxLength,       \* FilterChrome: maxLength
    filtered,        \* FilterChrome(chunks, patterns, maxLength)
    title,           \* RenderMarkdown: the title
    includeChunkIDs, \* RenderMarkdown: include_chunk_ids
    rendered,        \* RenderMarkdown(title, kept, includeChunkIDs)
    written,         \* the bytes WriteMarkdown writes to the file
    run,             \* runCommand: its position, calls made, files and return value
    report,          \* WriteReport: the JSON document written and the return value
    proc,            \* Runner.Run: the command, its context and the return value
    lw               \* limitedWriter: its fields and the bytes offered so far

textVars == <<validated, srcText, minChars, chunked, chunkedCRLF, chunkedCR, patterns,
              maxLength, filtered, title, includeChunkIDs, rendered, written>>

execVars == <<run, report, proc, lw>>

vars == <<pc, raw, once, twice, chunks, config, exOut, shOut, result, result2, textVars,
          execVars>>

normVars == <<raw, once, twice>>
dedupeVars == <<chunks, config, exOut, shOut, result, result2>>

(***************************************************************************)
(* Bytes and strings                                                       *)
(***************************************************************************)
TAB == 9
LF == 10
CR == 13
SP == 32

\* the bytes strings.TrimSpace strips (ASCII part of unicode.IsSpace)
SpaceBytes == {9, 10, 11, 12, 13, 32}

Min(S) == CHOOSE x \in S : \A y \in S : x <= y
Max(S) == CHOOSE x \in S : \A y \in S : x >= y

\* all sequences over S of length 0..n
RECURSIVE SeqsUpTo(_, _)
SeqsUpTo(S, n) ==
    IF n = 0 THEN {<<>>}
    ELSE LET shorter == SeqsUpTo(S, n - 1)
         IN shorter \cup {Append(s, x) : s \in {t \in shorter : Len(t) = n - 1}, x \in S}

IsUpper(b) == b \in 65..90
IsLetter(b) == b \in 65..90 \/ b \in 97..122
IsDigit(b) == b \in 48..57

\* strings.ToLower on ASCII
ToLower(s) == [i \in 1..Len(s) |-> IF IsUpper(s[i]) THEN s[i] + 32 ELSE s[i]]

\* regexp `[class]+` ReplaceAllString(s, rep): every maximal run of bytes of
\* class becomes the single byte rep
ReplaceRuns(s, class, rep) ==
    LET marked == [i \in 1..Len(s) |->
                     [ch   |-> IF s[i] \in class THEN rep ELSE s[i],
                      keep |-> (s[i] \notin class) \/ i = 1 \/ (s[i - 1] \notin class)]]
        Keep(m) == m.keep
        sel == SelectSeq(marked, Keep)
    IN [i \in 1..Len(sel) |-> sel[i].ch]

\* strings.TrimSpace
TrimSpace(s) ==
    LET idx == {i \in 1..Len(s) : s[i] \notin SpaceBytes}
    IN IF idx = {} THEN <<>> ELSE SubSeq(s, Min(idx), Max(idx))

\* the rune filter of Normalize: letters, digits, ' ' and '\n' survive
KeepRune(b) == IsLetter(b) \/ IsDigit(b) \/ b = SP \/ b = LF

Normalize(rawText) ==
    IF rawText = <<>> THEN <<>>
    ELSE LET lowered == ToLower(rawText)
             spaced == ReplaceRuns(lowered, {SP, TAB}, SP)
             lined == ReplaceRuns(spaced, {LF}, LF)
             kept == SelectSeq(lined, KeepRune)
         IN TrimSpace(kept)

(***************************************************************************)
(* uint64 arithmetic.  A uint64 is its 8 bytes, least significant first,   *)
(* so that products and sums wrap at 2^64 exactly as Go's do.              *)
(***************************************************************************)
U64Zero == <<0, 0, 0, 0, 0, 0, 0, 0>>

\* 14695981039346656037 = 0xcbf29ce484222325
fnvOffsetBasis64 == <<37, 35, 34, 132, 228, 156, 242, 203>>

\* 1099511628211 = 0x00000100000001b3
fnvPrime64 == <<179, 1, 0, 0, 0, 1, 0, 0>>

RECURSIVE XorBits(_, _, _)
XorBits(x, y, n) ==
    IF n = 0 THEN 0
    ELSE (((x % 2) + (y % 2)) % 2) + 2 * XorBits(x \div 2, y \div 2, n - 1)

XorByte(x, y) == XorBits(x, y, 8)

RECURSIVE PopCount(_)
PopCount(x) == IF x = 0 THEN 0 ELSE (x % 2) + PopCount(x \div 2)

Xor64(a, b) == [p \in 1..8 |-> XorByte(a[p], b[p])]

RECURSIVE ColSum(_, _, _, _)
ColSum(a, b, p, i) ==
    IF i > p THEN 0 ELSE (a[i] * b[p + 1 - i]) + ColSum(a, b, p, i + 1)

RECURSIVE Carry(_, _, _, _)
Carry(a, b, p, c) ==
    IF p > 8 THEN <<>>
    ELSE LET t == ColSum(a, b, p, 1) + c
         IN <<t % 256>> \o Carry(a, b, p + 1, t \div 256)

\* a * b mod 2^64
Mul64(a, b) == Carry(a, b, 1, 0)

\* bit i (0..63) of a uint64
Bit64(a, i) == (a[(i \div 8) + 1] \div (2 ^ (i % 8))) % 2

(***************************************************************************)
(* The texts and k-gram sizes the dedupe functions are run on              *)
(***************************************************************************)
\* texts and their norms (k = 3):
\*   "abcabc"   norm "abcabc"
\*   "abcabd"   norm "abcabd", Hamming distance 2 from "abcabc"
\*   "ABCABC!"  norm "abcabc": an exact duplicate of the first with another text
\*   "xyz"      far from all others
\*   "ab"       shorter than k: signature 0
\*   "?!"       norm "": signature 0
TextPool ==
    { <<97, 98, 99, 97, 98, 99>>,
      <<97, 98, 99, 97, 98, 100>>,
      <<65, 66, 67, 65, 66, 67, 33>>,
      <<120, 121, 122>>,
      <<97, 98>>,
      <<63, 33>> }

\* texts for the window scan, k = 3: "aaaaba" is at distance 2 from "aaaba" and
\* 1 from "baaaa" (which are 3 apart); "cbbba" is at distance 1 from both
\* "abbba" and "abbbba" (which are 2 apart); "ab" and "?!" have norms shorter
\* than k
ScanTexts ==
    { <<97, 97, 97, 98, 97>>,
      <<98, 97, 97, 97, 97>>,
      <<97, 97, 97, 97, 98, 97>>,
      <<97, 98, 98, 98, 97>>,
      <<97, 98, 98, 98, 98, 97>>,
      <<99, 98, 98, 98, 97>>,
      <<97, 98>>,
      <<63, 33>> }

SimHashKs == {3}

(***************************************************************************)
(* package dedupe                                                          *)
(***************************************************************************)
RECURSIVE fnvLoop(_, _, _)
fnvLoop(data, i, hash) ==
    IF i > Len(data) THEN hash
    ELSE fnvLoop(data, i + 1,
                 Mul64([hash EXCEPT ![1] = XorByte(hash[1], data[i])], fnvPrime64))

fnv1a64(data) == fnvLoop(data, 1, fnvOffsetBasis64)

generateKgrams(text, k) ==
    IF k <= 0 \/ Len(text) < k THEN <<>>
    ELSE [i \in 1..(Len(text) - k + 1) |-> SubSeq(text, i, i + k - 1)]

RECURSIVE voteLoop(_, _, _)
voteLoop(hashes, n, i) ==
    IF n = 0 THEN 0
    ELSE (IF Bit64(hashes[n], i) # 0 THEN 1 ELSE -1) + voteLoop(hashes, n - 1, i)

RECURSIVE packBits(_, _, _)
packBits(vector, p, b) ==
    IF b > 7 THEN 0
    ELSE (IF vector[8 * (p - 1) + b] > 0 THEN 2 ^ b ELSE 0) + packBits(vector, p, b + 1)

simhash64(text, k) ==
    IF text = <<>> \/ k <= 0 THEN U64Zero
    ELSE LET kgrams == generateKgrams(text, k)
         IN IF Len(kgrams) = 0 THEN U64Zero
            ELSE LET hashes == [n \in 1..Len(kgrams) |-> fnv1a64(kgrams[n])]
                     vector == [i \in 0..63 |-> voteLoop(hashes, Len(hashes), i)]
                 IN [p \in 1..8 |-> packBits(vector, p, 0)]

RECURSIVE popLoop(_, _)
popLoop(x, p) == IF p > 8 THEN 0 ELSE PopCount(x[p]) + popLoop(x, p + 1)

hammingDistance(a, b) == popLoop(Xor64(a, b), 1)

\* preview = preview[:200] + "..."
PreviewLimit == 200

Ellipsis == <<46, 46, 46>>

previewOf(text) ==
    IF Len(text) > PreviewLimit THEN SubSeq(text, 1, PreviewLimit) \o Ellipsis ELSE text

\* fmt.Sprintf("%x", sha1.Sum(norm)): SHA-1 is the standard library's; the
\* model keeps its one property the code relies on, that the digests of two
\* strings are equal exactly when the strings are (no collision on the inputs)
sha1Hex(norm) == <<"sha1", norm>>

EmptyMap == [x \in {} |-> x]

MapPut(m, k, v) == [x \in (DOMAIN m) \cup {k} |-> IF x = k THEN v ELSE m[x]]

NoPairs == [kept |-> <<>>, dropped |-> <<>>]

exactDropRecordWrongMatch(chunk, existingID) ==
    [ChunkID |-> chunk.ID, Reason |-> "exact_duplicate", MatchedChunkID |-> chunk.ID,
     Distance |-> 0, Preview |-> previewOf(chunk.Text)]

exactDropRecord(chunk, existingID) ==
    [ChunkID |-> chunk.ID, Reason |-> "exact_duplicate", MatchedChunkID |-> existingID,
     Distance |-> 0, Preview |-> previewOf(chunk.Text)]

\* what the else branch stores in seen: the first occurrence's id
seenAfterKeepLatest(seen, hashStr, chunk, isDup) == MapPut(seen, hashStr, chunk.ID)

seenAfter(seen, hashStr, chunk, isDup) ==
    IF isDup THEN seen ELSE MapPut(seen, hashStr, chunk.ID)

RECURSIVE exactLoopHashesEmpty(_, _, _, _, _)
exactLoopHashesEmpty(chs, i, seen, kept, dropped) ==
    IF i > Len(chs) THEN [kept |-> kept, dropped |-> dropped]
    ELSE LET chunk == chs[i]
             hashStr == sha1Hex(chunk.Norm)
             isDup == hashStr \in DOMAIN seen
         IN IF isDup
            THEN exactLoopHashesEmpty(chs, i + 1, seenAfter(seen, hashStr, chunk, isDup), kept,
                                      Append(dropped, exactDropRecord(chunk, seen[hashStr])))
            ELSE exactLoopHashesEmpty(chs, i + 1, seenAfter(seen, hashStr, chunk, isDup),
                                      Append(kept, chunk), dropped)

\* the loop of exactHashDedupe from chunk i on
RECURSIVE exactLoop(_, _, _, _, _)
exactLoop(chs, i, seen, kept, dropped) ==
    IF i > Len(chs) THEN [kept |-> kept, dropped |-> dropped]
    ELSE LET chunk == chs[i]
         IN IF chunk.Norm = <<>>
            THEN exactLoop(chs, i + 1, seen, Append(kept, chunk), dropped)
            ELSE LET hashStr == sha1Hex(chunk.Norm)
                     isDup == hashStr \in DOMAIN seen
                 IN IF isDup
                    THEN exactLoop(chs, i + 1, seenAfter(seen, hashStr, chunk, isDup), kept,
                                   Append(dropped, exactDropRecord(chunk, seen[hashStr])))
                    ELSE exactLoop(chs, i + 1, seenAfter(seen, hashStr, chunk, isDup),
                                   Append(kept, chunk), dropped)

exactHashDedupe(chs) ==
    IF Len(chs) = 0 THEN NoPairs ELSE exactLoop(chs, 1, EmptyMap, <<>>, <<>>)

\* windowStart, a 0-based index into kept
windowStartOffByOne(nKept, windowSize) ==
    IF nKept >= windowSize THEN nKept - windowSize + 1 ELSE 0

windowStartOf(nKept, windowSize) ==
    IF nKept > windowSize THEN nKept - windowSize ELSE 0

windowSizeNoZeroCase(chs, cfg) == cfg.Window

\* windowSize := config.Window, or len(chunks) when it is 0
windowSizeOf(chs, cfg) == IF cfg.Window = 0 THEN Len(chs) ELSE cfg.Window

isCloserOnTie(dist, threshold, minDistance) == dist <= threshold /\ dist <= minDistance

\* the condition of the inner loop's if
isCloser(dist, threshold, minDistance) == dist <= threshold /\ dist < minDistance

NoMatch == [matched |-> FALSE, matchedChunkID |-> <<>>, minDistance |-> 65]

\* the inner loop of simhashDedupe from j (0-based, as in the source) on
RECURSIVE scanWindow(_, _, _, _, _, _)
scanWindow(sig, kept, keptSignatures, j, threshold, acc) ==
    IF j >= Len(kept) THEN acc
    ELSE LET dist == hammingDistance(sig, keptSignatures[j + 1])
         IN scanWindow(sig, kept, keptSignatures, j + 1, threshold,
                       IF isCloser(dist, threshold, acc.minDistance)
                       THEN [matched |-> TRUE, matchedChunkID |-> kept[j + 1].ID,
                             minDistance |-> dist]
                       ELSE acc)

nearDropRecordBadReason(chunk, m) ==
    [ChunkID |-> chunk.ID, Reason |-> "near-duplicate", MatchedChunkID |-> m.matchedChunkID,
     Distance |-> m.minDistance, Preview |-> previewOf(chunk.Text)]

nearDropRecord(chunk, m) ==
    [ChunkID |-> chunk.ID, Reason |-> "near_duplicate", MatchedChunkID |-> m.matchedChunkID,
     Distance |-> m.minDistance, Preview |-> previewOf(chunk.Text)]

\* the outer loop of simhashDedupe from chunk i on
RECURSIVE simLoop(_, _, _, _, _, _, _, _)
simLoop(chs, signatures, i, cfg, windowSize, kept, keptSignatures, dropped) ==
    IF i > Len(chs) THEN [kept |-> kept, dropped |-> dropped]
    ELSE LET chunk == chs[i]
             sig == signatures[i]
             windowStart == windowStartOf(Len(kept), windowSize)
             m == scanWindow(sig, kept, keptSignatures, windowStart,
                             cfg.SimHashThreshold, NoMatch)
         IN IF m.matched
            THEN simLoop(chs, signatures, i + 1, cfg, windowSize, kept, keptSignatures,
                         Append(dropped, nearDropRecord(chunk, m)))
            ELSE simLoop(chs, signatures, i + 1, cfg, windowSize, Append(kept, chunk),
                         Append(keptSignatures, sig), dropped)

\* simhash64 is a pure function: its values on the norms and k-gram sizes of
\* the inputs are computed once and looked up afterwards
RECURSIVE simhash64TableOf(_)
simhash64TableOf(S) ==
    IF S = {} THEN EmptyMap
    ELSE LET x == CHOOSE y \in S : TRUE
         IN (x :> simhash64(x[1], x[2])) @@ simhash64TableOf(S \ {x})

Simhash64Table == simhash64TableOf({Normalize(t) : t \in TextPool \cup ScanTexts} \X SimHashKs)

signatureOfShortHashed(norm, k) ==
    IF Len(norm) < k THEN fnv1a64(norm)
    ELSE IF <<norm, k>> \in DOMAIN Simhash64Table THEN Simhash64Table[<<norm, k>>]
    ELSE simhash64(norm, k)

signatureOf(norm, k) ==
    IF <<norm, k>> \in DOMAIN Simhash64Table THEN Simhash64Table[<<norm, k>>]
    ELSE simhash64(norm, k)

simhashDedupe(chs, cfg) ==
    IF Len(chs) = 0 THEN NoPairs
    ELSE LET signatures == [i \in 1..Len(chs) |-> signatureOf(chs[i].Norm, cfg.SimHashK)]
         IN simLoop(chs, signatures, 1, cfg, windowSizeOf(chs, cfg), <<>>, <<>>, <<>>)

\* one iteration of the outer loop of simhashDedupe, on chunk and its
\* signature sig, from the kept, keptSignatures and dropped built so far
simStep(chunk, sig, cfg, windowSize, st) ==
    LET windowStart == windowStartOf(Len(st.kept), windowSize)
        m == scanWindow(sig, st.kept, st.keptSignatures, windowStart,
                        cfg.SimHashThreshold, NoMatch)
    IN IF m.matched
       THEN [st EXCEPT !.dropped = Append(@, nearDropRecord(chunk, m))]
       ELSE [st EXCEPT !.kept = Append(@, chunk), !.keptSignatures = Append(@, sig)]

\* kept, keptSignatures and dropped before the loop
ScanStart == [kept |-> <<>>, keptSignatures |-> <<>>, dropped |-> <<>>]

DefaultConfig == [Method |-> "simhash", SimHashK |-> 5, SimHashThreshold |-> 6, Window |-> 250]

ValidateUnknownToExact(c) ==
    LET c1 == IF c.SimHashK <= 0 THEN [c EXCEPT !.SimHashK = 5] ELSE c
        c2 == IF c1.SimHashThreshold < 0 THEN [c1 EXCEPT !.SimHashThreshold = 6] ELSE c1
        c3 == IF c2.SimHashThreshold > 64 THEN [c2 EXCEPT !.SimHashThreshold = 64] ELSE c2
        c4 == IF c3.Window < 0 THEN [c3 EXCEPT !.Window = 250] ELSE c3
    IN IF c4.Method # "exact" /\ c4.Method # "simhash" /\ c4.Method # "both"
       THEN [c4 EXCEPT !.Method = "exact"]
       ELSE c4

ValidateKeepsZeroK(c) ==
    LET c1 == IF c.SimHashK < 0 THEN [c EXCEPT !.SimHashK = 5] ELSE c
        c2 == IF c1.SimHashThreshold < 0 THEN [c1 EXCEPT !.SimHashThreshold = 6] ELSE c1
        c3 == IF c2.SimHashThreshold > 64 THEN [c2 EXCEPT !.SimHashThreshold = 64] ELSE c2
        c4 == IF c3.Window < 0 THEN [c3 EXCEPT !.Window = 250] ELSE c3
    IN IF c4.Method # "exact" /\ c4.Method # "simhash" /\ c4.Method # "both"
       THEN [c4 EXCEPT !.Method = "simhash"]
       ELSE c4

Validate(c) ==
    LET c1 == IF c.SimHashK <= 0 THEN [c EXCEPT !.SimHashK = 5] ELSE c
        c2 == IF c1.SimHashThreshold < 0 THEN [c1 EXCEPT !.SimHashThreshold = 6] ELSE c1
        c3 == IF c2.SimHashThreshold > 64 THEN [c2 EXCEPT !.SimHashThreshold = 64] ELSE c2
        c4 == IF c3.Window < 0 THEN [c3 EXCEPT !.Window = 250] ELSE c3
    IN IF c4.Method # "exact" /\ c4.Method # "simhash" /\ c4.Method # "both"
       THEN [c4 EXCEPT !.Method = "simhash"]
       ELSE c4

\* the key set of exactKeptMap / simhashKeptMap
idsOf(cs) == {cs[i].ID : i \in 1..Len(cs)}

bothKeptEither(chs, exactKept, simhashKept) ==
    LET Keep(c) == c.ID \in idsOf(exactKept) \/ c.ID \in idsOf(simhashKept)
    IN SelectSeq(chs, Keep)

bothKeptSimhashOrder(chs, exactKept, simhashKept) ==
    LET Keep(c) == c.ID \in idsOf(exactKept)
        sel == SelectSeq(simhashKept, Keep)
    IN [i \in 1..Len(sel) |-> sel[Len(sel) + 1 - i]]

\* method both: the chunks, in input order, that both passes kept
bothKeptOf(chs, exactKept, simhashKept) ==
    LET exactKeptMap == idsOf(exactKept)
        simhashKeptMap == idsOf(simhashKept)
        Keep(c) == c.ID \in exactKeptMap /\ c.ID \in simhashKeptMap
    IN SelectSeq(chs, Keep)

RECURSIVE droppedMapLoopLastWins(_, _, _)
droppedMapLoopLastWins(allDropped, i, droppedMap) ==
    IF i > Len(allDropped) THEN droppedMap
    ELSE droppedMapLoopLastWins(allDropped, i + 1,
             MapPut(droppedMap, allDropped[i].ChunkID, allDropped[i]))

\* the loop that fills droppedMap from allDropped[i] on
RECURSIVE droppedMapLoop(_, _, _)
droppedMapLoop(allDropped, i, droppedMap) ==
    IF i > Len(allDropped) THEN droppedMap
    ELSE LET d == allDropped[i]
         IN droppedMapLoop(allDropped, i + 1,
                IF d.ChunkID \notin DOMAIN droppedMap
                   \/ d.Distance < droppedMap[d.ChunkID].Distance
                THEN MapPut(droppedMap, d.ChunkID, d)
                ELSE droppedMap)

\* all enumerations of a finite set
Perms(S) == {f \in [1..Cardinality(S) -> S] : \A x \in S : \E i \in 1..Cardinality(S) : f[i] = x}

\* "for _, d := range droppedMap": Go leaves the iteration order of a map
\* unspecified, so the loop may visit the entries in any order
MapOrders(m) == {[i \in 1..Len(ks) |-> m[ks[i]]] : ks \in Perms(DOMAIN m)}

uniqueDroppedNoMerge(allDropped) == {allDropped}

\* the uniqueDropped lists the merge of method both can build
uniqueDroppedOf(allDropped) == MapOrders(droppedMapLoop(allDropped, 1, EmptyMap))

\* case "both": the (kept, dropped) pairs it can produce
bothPath(chs, c) ==
    LET ex == exactHashDedupe(chs)
        sh == simhashDedupe(chs, c)
        bothKept == bothKeptOf(chs, ex.kept, sh.kept)
        allDropped == ex.dropped \o sh.dropped
    IN {[kept |-> bothKept, dropped |-> u] : u \in uniqueDroppedOf(allDropped)}

simhashPathNearFirst(chs, c) ==
    LET ex == exactHashDedupe(chs)
        sh == simhashDedupe(ex.kept, c)
    IN [kept |-> sh.kept, dropped |-> sh.dropped \o ex.dropped]

\* case "simhash" (and default): exact pre-check, then SimHash on its survivors
simhashPath(chs, c) ==
    LET ex == exactHashDedupe(chs)
        sh == simhashDedupe(ex.kept, c)
    IN [kept |-> sh.kept, dropped |-> ex.dropped \o sh.dropped]

countReason(dropped, reason) ==
    LET Is(d) == d.Reason = reason
    IN Len(SelectSeq(dropped, Is))

mkResult(chs, kept, dropped) ==
    [KeptChunks |-> kept,
     Dropped |-> dropped,
     Stats |-> [InputCount |-> Len(chs),
                KeptCount |-> Len(kept),
                DroppedCount |-> Len(dropped),
                ExactDups |-> countReason(dropped, "exact_duplicate"),
                NearDups |-> countReason(dropped, "near_duplicate")]]

EmptyResult == mkResult(<<>>, <<>>, <<>>)

\* Dedupe(chunks, config): the set of DedupeResults the call can return (one
\* result, except where the map iteration of method both orders Dropped)
Dedupe(chs, cfg) ==
    LET c == Validate(cfg)
    IN IF Len(chs) = 0 THEN {EmptyResult}
       ELSE LET pairs == CASE c.Method = "exact" -> {exactHashDedupe(chs)}
                           [] c.Method = "simhash" -> {simhashPath(chs, c)}
                           [] c.Method = "both" -> bothPath(chs, c)
                           [] OTHER -> {simhashPath(chs, c)}
            IN {mkResult(chs, p.kept, p.dropped) : p \in pairs}

\* decimal digits of n, most significant first ("" for 0)
RECURSIVE Digits(_)
Digits(n) == IF n = 0 THEN <<>> ELSE Append(Digits(n \div 10), 48 + (n % 10))

\* fmt.Sprintf("%04d", n) for n >= 0
Pad4(n) ==
    LET d == Digits(n)
    IN [i \in 1..(4 - Len(d)) |-> 48] \o d

\* fmt.Sprintf("c%04d", n)
FormatID(n) == <<99>> \o Pad4(n)

\* the chunk ChunkText builds for the n-th surviving segment
MkChunk(n, text) ==
    [ID |-> FormatID(n), Text |-> text, Norm |-> Normalize(text), Index |-> n - 1]

(***************************************************************************)
(* package text: ChunkText                                                 *)
(***************************************************************************)
\* the bytes the regexp class \s matches: \t \n \f \r and space
RegexSpace == {9, 10, 12, 13, 32}

\* end of the match of `\n\s*\n+` that starts at position p, 0 if there is
\* none: \s* is greedy, so the match runs to the last \n of the whitespace
\* run that follows p
blankLineMatchEnd(s, p) ==
    IF s[p] # LF THEN 0
    ELSE LET ends == {q \in (p + 1)..Len(s) :
                         /\ s[q] = LF
                         /\ \A r \in (p + 1)..q : s[r] \in RegexSpace}
         IN IF ends = {} THEN 0 ELSE Max(ends)

\* blankLineRegex.Split(s, -1) from position beg on: the pieces between the
\* successive leftmost matches
RECURSIVE splitLoop(_, _)
splitLoop(s, beg) ==
    LET starts == {p \in beg..Len(s) : blankLineMatchEnd(s, p) > 0}
    IN IF starts = {} THEN <<SubSeq(s, beg, Len(s))>>
       ELSE LET p == Min(starts)
            IN <<SubSeq(s, beg, p - 1)>> \o splitLoop(s, blankLineMatchEnd(s, p) + 1)

blankLineSplit(s) == splitLoop(s, 1)

chunkLoopNumbersSegments(segments, i, minCh, acc) ==
    LET Long(j) == Len(TrimSpace(segments[j])) >= minCh
        kept == {j \in 1..Len(segments) : Long(j)}
        nth(n) == CHOOSE j \in kept : Cardinality({k \in kept : k < j}) = n - 1
    IN [n \in 1..Cardinality(kept) |-> MkChunk(nth(n), TrimSpace(segments[nth(n)]))]

\* the loop over the segments, from segments[i] on; chunkIndex is Len(acc)
RECURSIVE chunkLoop(_, _, _, _)
chunkLoop(segments, i, minCh, acc) ==
    IF i > Len(segments) THEN acc
    ELSE LET trimmed == TrimSpace(segments[i])
         IN IF Len(trimmed) < minCh
            THEN chunkLoop(segments, i + 1, minCh, acc)
            ELSE chunkLoop(segments, i + 1, minCh,
                           Append(acc, MkChunk(Len(acc) + 1, trimmed)))

ChunkText(txt, minCh) ==
    IF txt = <<>> THEN <<>>
    ELSE LET segments == blankLineSplit(txt)
             cs == chunkLoop(segments, 1, minCh, <<>>)
         IN IF Len(cs) = 0 /\ Len(TrimSpace(txt)) >= minCh
            THEN <<MkChunk(1, TrimSpace(txt))>>
            ELSE cs

(***************************************************************************)
(* package text: FilterChrome.  The patterns of the model are written with *)
(* letters, '|' and '[': a pattern holding a '[' has no closing ']' and    *)
(* regexp.Compile rejects it; every other one is an alternation of         *)
(* literals.                                                               *)
(***************************************************************************)
\* regexp.Compile(pattern) returns no error
regexpCompiles(pattern) == \A i \in 1..Len(pattern) : pattern[i] # 91

\* the alternatives of a pattern, split at '|'
RECURSIVE alternativesOf(_, _)
alternativesOf(pattern, cur) ==
    IF pattern = <<>> THEN {cur}
    ELSE IF Head(pattern) = 124 THEN {cur} \cup alternativesOf(Tail(pattern), <<>>)
    ELSE alternativesOf(Tail(pattern), Append(cur, Head(pattern)))

isSubstring(sub, s) ==
    \E i \in 1..(Len(s) - Len(sub) + 1) : SubSeq(s, i, i + Len(sub) - 1) = sub

\* re.MatchString(s): unanchored, some alternative occurs in s
MatchString(pattern, s) == \E alt \in alternativesOf(pattern, <<>>) : isSubstring(alt, s)

\* the patterns that compile, in order
compiledPatternsOf(pats) == SelectSeq(pats, regexpCompiles)

shouldFilterAtMaxLength(chunk, compiledPatterns, maxLen) ==
    /\ Len(chunk.Norm) <= maxLen
    /\ \E i \in 1..Len(compiledPatterns) : MatchString(compiledPatterns[i], chunk.Norm)

shouldFilter(chunk, compiledPatterns, maxLen) ==
    /\ Len(chunk.Norm) < maxLen
    /\ \E i \in 1..Len(compiledPatterns) : MatchString(compiledPatterns[i], chunk.Norm)

FilterChrome(chs, pats, maxLen) ==
    IF Len(pats) = 0 THEN chs
    ELSE LET compiledPatterns == compiledPatternsOf(pats)
             Keep(chunk) == ~shouldFilter(chunk, compiledPatterns, maxLen)
         IN SelectSeq(chs, Keep)

(***************************************************************************)
(* package text: RenderMarkdown and WriteMarkdown                          *)
(***************************************************************************)
\* "Extracted Notes"
DefaultTitle == <<69, 120, 116, 114, 97, 99, 116, 101, 100, 32, 78, 111, 116, 101, 115>>

\* "# "
HeaderPrefix == <<35, 32>>

\* "<!-- " and " -->\n"
CommentOpen == <<60, 33, 45, 45, 32>>
CommentClose == <<32, 45, 45, 62, 10>>

\* the loop over the chunks, from chs[i] on
RECURSIVE renderLoop(_, _, _)
renderLoop(chs, i, incl) ==
    IF i > Len(chs) THEN <<>>
    ELSE (IF incl THEN CommentOpen \o chs[i].ID \o CommentClose ELSE <<>>)
         \o chs[i].Text \o <<LF, LF>> \o renderLoop(chs, i + 1, incl)

RenderMarkdown(ttl, chs, incl) ==
    LET t == IF ttl = <<>> THEN DefaultTitle ELSE ttl
    IN HeaderPrefix \o t \o <<LF, LF>> \o renderLoop(chs, 1, incl)

\* strings.ReplaceAll(s, "\r\n", "\n")
RECURSIVE replaceCRLF(_)
replaceCRLF(s) ==
    IF s = <<>> THEN <<>>
    ELSE IF Len(s) >= 2 /\ s[1] = CR /\ s[2] = LF
         THEN <<LF>> \o replaceCRLF(SubSeq(s, 3, Len(s)))
         ELSE <<Head(s)>> \o replaceCRLF(Tail(s))

\* strings.ReplaceAll(s, "\r", "\n")
replaceCR(s) == [i \in 1..Len(s) |-> IF s[i] = CR THEN LF ELSE s[i]]

\* strings.TrimRight(s, "\n")
RECURSIVE trimRightLF(_)
trimRightLF(s) ==
    IF s # <<>> /\ s[Len(s)] = LF THEN trimRightLF(SubSeq(s, 1, Len(s) - 1)) ELSE s

normalizedContentNoTrim(content) == Append(replaceCR(replaceCRLF(content)), LF)

\* the string WriteMarkdown hands to writer.WriteString
normalizedContent(content) == Append(trimRightLF(replaceCR(replaceCRLF(content))), LF)

(***************************************************************************)
(* package runner: limitedWriter                                           *)
(***************************************************************************)
\* "\n...[truncated]"
TruncationMarker == <<10, 46, 46, 46, 91, 116, 114, 117, 110, 99, 97, 116, 101, 100, 93>>

newLimitedWriter(maxBytes) ==
    [maxBytes |-> maxBytes, buf |-> <<>>, written |-> 0, truncated |-> FALSE]

\* (w *limitedWriter) Write(p): the writer afterwards
writerAfter(w, p) ==
    LET remaining == w.maxBytes - w.written
    IN IF remaining <= 0
       THEN [w EXCEPT !.truncated = TRUE]
       ELSE LET toWrite == IF Len(p) > remaining THEN SubSeq(p, 1, remaining) ELSE p
            IN [w EXCEPT !.buf = @ \o toWrite,
                         !.written = @ + Len(toWrite),
                         !.truncated = @ \/ Len(p) > remaining]

\* (w *limitedWriter) Write(p): the values returned; strings.Builder.Write
\* returns a nil error
writeReturns(w, p) == [n |-> Len(p), err |-> "nil"]

\* (w *limitedWriter) String()
writerString(w) == w.buf \o (IF w.truncated THEN TruncationMarker ELSE <<>>)

(***************************************************************************)
(* package runner: Runner.Run                                              *)
(***************************************************************************)
runClassifyExitFirst(p) ==
    IF p.runErr = "nil" THEN [err |-> "nil", ExitCode |-> p.ExitCode]
    ELSE IF p.started /\ p.ExitCode # 0 THEN [err |-> "ExecError", ExitCode |-> p.ExitCode]
    ELSE IF p.ctxErr = "DeadlineExceeded" THEN [err |-> "timed out", ExitCode |-> p.ExitCode]
    ELSE IF p.ctxErr = "Canceled" THEN [err |-> "canceled", ExitCode |-> p.ExitCode]
    ELSE [err |-> "execution failed", ExitCode |-> p.ExitCode]

\* "Handle errors": the error Run returns and Result.ExitCode, from the error
\* of cmd.Run, ctx.Err() and cmd.ProcessState (started: it is not nil)
runClassify(p) ==
    IF p.runErr = "nil" THEN [err |-> "nil", ExitCode |-> p.ExitCode]
    ELSE IF p.ctxErr = "DeadlineExceeded" THEN [err |-> "timed out", ExitCode |-> p.ExitCode]
    ELSE IF p.ctxErr = "Canceled" THEN [err |-> "canceled", ExitCode |-> p.ExitCode]
    ELSE IF p.started /\ p.ExitCode # 0 THEN [err |-> "ExecError", ExitCode |-> p.ExitCode]
    ELSE [err |-> "execution failed", ExitCode |-> p.ExitCode]

\* ctx.Err() after an event that ends the context: the first cause stays
ctxErrAfter(p, cause) == IF p.ctxErr = "nil" THEN cause ELSE p.ctxErr

(***************************************************************************)
(* package main: runCommand                                                *)
(***************************************************************************)
\* the record of one run: the flags, the calls made so far in order, the
\* calls that failed, the warnings logged, the output files written and the
\* error returned ("nil" while none)
newRun(keepArtifacts, emitChunksJSONL) ==
    [keepArtifacts |-> keepArtifacts, emitChunksJSONL |-> emitChunksJSONL,
     calls |-> <<>>, failed |-> {}, warnings |-> {}, files |-> {}, err |-> "nil"]

\* a call whose error runCommand returns, wrapped in message
callStage(r, name, ok, message) ==
    [r EXCEPT !.calls = Append(@, name),
              !.failed = IF ok THEN @ ELSE @ \cup {name},
              !.err = IF ok THEN @ ELSE message]

afterStageContinues(ok, next) == next

\* where runCommand goes after a call: on, or out with the error
afterStage(ok, next) == IF ok THEN next ELSE "rc_returned"

cleanupIfRequestedAlways(r, name, ok) ==
    [r EXCEPT !.calls = Append(@, name),
              !.failed = IF ok THEN @ ELSE @ \cup {name},
              !.warnings = IF ok THEN @ ELSE @ \cup {name}]

\* "if !keepArtifacts { CleanupArtifact(path) }": a failure is logged only
cleanupIfRequested(r, name, ok) ==
    IF r.keepArtifacts THEN r
    ELSE [r EXCEPT !.calls = Append(@, name),
                   !.failed = IF ok THEN @ ELSE @ \cup {name},
                   !.warnings = IF ok THEN @ ELSE @ \cup {name}]

\* a call whose error runCommand logs as a warning and does not return
callWarnOnly(r, name, file, ok) ==
    [r EXCEPT !.calls = Append(@, name),
              !.failed = IF ok THEN @ ELSE @ \cup {name},
              !.warnings = IF ok THEN @ ELSE @ \cup {name},
              !.files = IF ok THEN @ \cup {file} ELSE @]

(***************************************************************************)
(* package report: WriteReport                                             *)
(***************************************************************************)
\* the Go struct types that json.MarshalIndent walks: each field with its
\* name and its `json:"..."` tag ("" when the field has none)
ReportType ==
    << [name |-> "InputImages", tag |-> "input_images"],
       [name |-> "InputChunks", tag |-> "input_chunks"],
       [name |-> "KeptChunks", tag |-> "kept_chunks"],
       [name |-> "DroppedChunks", tag |-> "dropped_chunks"],
       [name |-> "ExactDuplicates", tag |-> "exact_duplicates"],
       [name |-> "NearDuplicates", tag |-> "near_duplicates"],
       [name |-> "Config", tag |-> "config"],
       [name |-> "Dropped", tag |-> "dropped"],
       [name |-> "Timestamp", tag |-> "timestamp"] >>

ReportConfigType ==
    << [name |-> "Method", tag |-> "method"],
       [name |-> "SimHashK", tag |-> "simhash_k"],
       [name |-> "SimHashThreshold", tag |-> "simhash_threshold"],
       [name |-> "Window", tag |-> "window"] >>

DroppedChunkType ==
    << [name |-> "ChunkID", tag |-> ""],
       [name |-> "Reason", tag |-> ""],
       [name |-> "MatchedChunkID", tag |-> ""],
       [name |-> "Distance", tag |-> ""],
       [name |-> "Preview", tag |-> ""] >>

\* encoding/json: the key of a field is its tag name, or the Go field name
\* when it has no tag
jsonKey(field) == IF field.tag = "" THEN field.name ELSE field.tag

\* a struct as a JSON object: its fields in declaration order, as members
marshalStruct(type, val) ==
    [i \in 1..Len(type) |-> [key |-> jsonKey(type[i]), value |-> val[type[i].name]]]

\* the JSON document WriteReport marshals
marshalReport(r) ==
    marshalStruct(ReportType,
        [r EXCEPT !.Config = marshalStruct(ReportConfigType, @),
                  !.Dropped = [i \in 1..Len(@) |-> marshalStruct(DroppedChunkType, @[i])]])

\* WriteReport: the document, and the error returned for the outcome of
\* os.Create and file.Write
WriteReport(res, inputImages, cfg, timestamp, outcome) ==
    [json |-> marshalReport(
                [InputImages |-> inputImages,
                 InputChunks |-> res.Stats.InputCount,
                 KeptChunks |-> res.Stats.KeptCount,
                 DroppedChunks |-> res.Stats.DroppedCount,
                 ExactDuplicates |-> res.Stats.ExactDups,
                 NearDuplicates |-> res.Stats.NearDups,
                 Config |-> [Method |-> cfg.Method, SimHashK |-> cfg.SimHashK,
                             SimHashThreshold |-> cfg.SimHashThreshold,
                             Window |-> cfg.Window],
                 Dropped |-> res.Dropped,
                 Timestamp |-> timestamp]),
     inputImages |-> inputImages,
     err |-> CASE outcome = "ok" -> "nil"
               [] outcome = "create failed" -> "failed to create report file"
               [] outcome = "write failed" -> "failed to write report"]

\* the variables of runCommand, WriteReport, Runner.Run and limitedWriter,
\* before any of them has run
ExecIdle ==
    /\ run = <<>>
    /\ report = <<>>
    /\ proc = <<>>
    /\ lw = <<>>

\* the variables of the text stages, before any of them has run
TextIdle ==
    /\ validated = DefaultConfig
    /\ srcText = <<>>
    /\ minChars = 0
    /\ chunked = <<>>
    /\ chunkedCRLF = <<>>
    /\ chunkedCR = <<>>
    /\ patterns = <<>>
    /\ maxLength = 0
    /\ filtered = <<>>
    /\ title = <<>>
    /\ includeChunkIDs = FALSE
    /\ rendered = <<>>
    /\ written = <<>>

(***************************************************************************)
(* Specification SpecNormalize: Normalize applied once and twice to every  *)
(* string over NormAlphabet of length <= MaxRawLen.                        *)
(***************************************************************************)
MaxRawLen == 5

\* 'A', 'a', '1', ' ', '\t', '\n', '\r', '!'
NormAlphabet == {65, 97, 49, SP, TAB, LF, CR, 33}

InitNormalize ==
    /\ pc = "norm_start"
    /\ ExecIdle
    /\ raw \in SeqsUpTo(NormAlphabet, MaxRawLen)
    /\ once = <<>>
    /\ twice = <<>>
    /\ chunks = <<>>
    /\ config = DefaultConfig
    /\ exOut = NoPairs
    /\ shOut = NoPairs
    /\ result = EmptyResult
    /\ result2 = EmptyResult
    /\ TextIdle

NormalizeOnce ==
    /\ pc = "norm_start"
    /\ once' = Normalize(raw)
    /\ pc' = "norm_once"
    /\ UNCHANGED <<raw, twice, dedupeVars, textVars, execVars>>

NormalizeTwice ==
    /\ pc = "norm_once"
    /\ twice' = Normalize(once)
    /\ pc' = "norm_twice"
    /\ UNCHANGED <<raw, once, dedupeVars, textVars, execVars>>

NextNormalize == NormalizeOnce \/ NormalizeTwice

SpecNormalize == InitNormalize /\ [][NextNormalize]_vars

\* C3: Normalize is idempotent: Normalize(Normalize(s)) = Normalize(s).
NormalizeIdempotent == pc = "norm_twice" => twice = once

(***************************************************************************)
(* Specification SpecDedupe: exactHashDedupe, simhashDedupe and Dedupe     *)
(* called on every chunk list of at most MaxChunks chunks whose texts come *)
(* from TextPool, under every configuration of DedupeConfigs.  The chunker *)
(* numbers the chunks 1, 2, 3, ... and the chrome filter may remove some   *)
(* before Dedupe sees the list: the ids are i * stride, stride 1 for an    *)
(* unfiltered list and stride 2 for one that lost every other chunk.       *)
(***************************************************************************)
MaxChunks == 3

IdStrides == {1, 2}

Methods == {"exact", "simhash", "both", "fuzzy"}
Thresholds == {1, 2}
Windows == {0, 1}

DedupeConfigs ==
    [Method : Methods, SimHashK : SimHashKs, SimHashThreshold : Thresholds, Window : Windows]

ChunkLists ==
    UNION {{[i \in 1..n |-> MkChunk(i * stride, t[i])] :
                t \in [1..n -> TextPool], stride \in IdStrides} :
           n \in 0..MaxChunks}

InitDedupe ==
    /\ pc = "dd_start"
    /\ ExecIdle
    /\ chunks \in ChunkLists
    /\ config \in DedupeConfigs
    /\ exOut = NoPairs
    /\ shOut = NoPairs
    /\ result = EmptyResult
    /\ result2 = EmptyResult
    /\ raw = <<>>
    /\ once = <<>>
    /\ twice = <<>>
    /\ TextIdle

RunExact ==
    /\ pc = "dd_start"
    /\ exOut' = exactHashDedupe(chunks)
    /\ pc' = "dd_exact"
    /\ UNCHANGED <<chunks, config, shOut, result, result2, normVars, textVars, execVars>>

RunSimhash ==
    /\ pc = "dd_start"
    /\ shOut' = simhashDedupe(chunks, config)
    /\ pc' = "dd_simhash"
    /\ UNCHANGED <<chunks, config, exOut, result, result2, normVars, textVars, execVars>>

RunDedupe ==
    /\ pc = "dd_start"
    /\ result' \in Dedupe(chunks, config)
    /\ pc' = "dd_once"
    /\ UNCHANGED <<chunks, config, exOut, shOut, result2, normVars, textVars, execVars>>

RunDedupeAgain ==
    /\ pc = "dd_once"
    /\ result2' \in Dedupe(chunks, config)
    /\ pc' = "dd_twice"
    /\ UNCHANGED <<chunks, config, exOut, shOut, result, normVars, textVars, execVars>>

NextDedupe == RunExact \/ RunSimhash \/ RunDedupe \/ RunDedupeAgain

SpecDedupe == InitDedupe /\ [][NextDedupe]_vars

(***************************************************************************)
(* Vocabulary of the properties                                            *)
(***************************************************************************)
\* position of the input chunk with this id (0 when there is none)
Pos(id) ==
    IF \E i \in 1..Len(chunks) : chunks[i].ID = id
    THEN CHOOSE i \in 1..Len(chunks) : chunks[i].ID = id
    ELSE 0

RECURSIVE ParseNum(_)
ParseNum(d) == IF d = <<>> THEN 0 ELSE 10 * ParseNum(SubSeq(d, 1, Len(d) - 1)) + (d[Len(d)] - 48)

\* the numeric suffix of an id "cNNNN"
NumSuffix(id) == ParseNum(SubSeq(id, 2, Len(id)))

\* a list of chunks or of Dropped records is in input order
ChunksInInputOrder(cs) == \A i, j \in 1..Len(cs) : i < j => Pos(cs[i].ID) < Pos(cs[j].ID)
DroppedInInputOrder(ds) ==
    \A i, j \in 1..Len(ds) : i < j => Pos(ds[i].ChunkID) < Pos(ds[j].ChunkID)

droppedIds(ds) == {ds[i].ChunkID : i \in 1..Len(ds)}

\* the first input chunk that carries the norm of chunk i
FirstWithNorm(i) == Min({j \in 1..Len(chunks) : chunks[j].Norm = chunks[i].Norm})

Sig(i) == signatureOf(chunks[i].Norm, config.SimHashK)
SigOfId(id) == Sig(Pos(id))

\* the chunks of a kept list that precede input position i: what the kept
\* list was when the scan reached chunk i
KeptBefore(kept, i) ==
    LET Before(c) == Pos(c.ID) < i
    IN SelectSeq(kept, Before)

\* the last W entries of a kept list, all of them when window is 0
InWindow(kept, window) ==
    IF window = 0 \/ Len(kept) <= window THEN kept
    ELSE SubSeq(kept, Len(kept) - window + 1, Len(kept))

(***************************************************************************)
(* Properties of SpecDedupe                                                *)
(***************************************************************************)
\* C1: KeptCount + DroppedCount = InputCount, the three being the lengths of
\* KeptChunks, Dropped and the input list, for every method.
StatsKeptPlusDropped ==
    pc = "dd_once" =>
        /\ result.Stats.InputCount = Len(chunks)
        /\ result.Stats.KeptCount = Len(result.KeptChunks)
        /\ result.Stats.DroppedCount = Len(result.Dropped)
        /\ result.Stats.KeptCount + result.Stats.DroppedCount = result.Stats.InputCount

\* C1 witness: method both returned with a chunk that both passes dropped.
StatsWitness ==
    /\ pc = "dd_once"
    /\ config.Method = "both"
    /\ Len(result.KeptChunks) >= 1
    /\ \E id \in droppedIds(result.Dropped) :
          /\ id \in droppedIds(exactHashDedupe(chunks).dropped)
          /\ id \in droppedIds(simhashDedupe(chunks, config).dropped)

\* C2 as stated: every Dropped record's matched_chunk_id names a chunk of the
\* final KeptChunks that precedes the dropped chunk in input order.
MatchedInFinalKept ==
    pc = "dd_once" =>
        \A i \in 1..Len(result.Dropped) :
            LET d == result.Dropped[i]
            IN /\ d.MatchedChunkID \in idsOf(result.KeptChunks)
               /\ Pos(d.MatchedChunkID) >= 1
               /\ Pos(d.MatchedChunkID) < Pos(d.ChunkID)

\* the kept list of the SimHash pass that Dedupe ran
SimhashPassKept ==
    IF Validate(config).Method = "both"
    THEN simhashDedupe(chunks, Validate(config)).kept
    ELSE result.KeptChunks

\* C2 amended: every Dropped record's matched_chunk_id names an input chunk
\* that precedes the dropped chunk in input order and was kept by the pass
\* that emitted the record: for exact_duplicate the first input chunk with the
\* same norm, for near_duplicate a chunk of the SimHash pass's kept list.
\* Under method exact that chunk is in the final KeptChunks.
MatchedKeptByItsPass ==
    pc = "dd_once" =>
        \A i \in 1..Len(result.Dropped) :
            LET d == result.Dropped[i]
            IN /\ Pos(d.MatchedChunkID) >= 1
               /\ Pos(d.MatchedChunkID) < Pos(d.ChunkID)
               /\ d.Reason = "exact_duplicate" =>
                     Pos(d.MatchedChunkID) = FirstWithNorm(Pos(d.ChunkID))
               /\ d.Reason = "near_duplicate" =>
                     d.MatchedChunkID \in idsOf(SimhashPassKept)
               /\ Validate(config).Method = "exact" =>
                     d.MatchedChunkID \in idsOf(result.KeptChunks)

\* C2 witness: a Dropped record whose matched chunk the other pass dropped.
MatchedDroppedWitness ==
    /\ pc = "dd_once"
    /\ \E i \in 1..Len(result.Dropped) :
          /\ result.Dropped[i].MatchedChunkID \notin idsOf(result.KeptChunks)
          /\ result.Dropped[i].MatchedChunkID \in droppedIds(result.Dropped)

\* C4: two calls of Dedupe on the same chunks and configuration return the
\* same KeptChunks and the same Dropped, in the same order.
DedupeDeterministic ==
    pc = "dd_twice" =>
        /\ result2.KeptChunks = result.KeptChunks
        /\ result2.Dropped = result.Dropped

\* C5: KeptChunks is a subsequence of the input: the numeric suffixes of its
\* ids increase strictly and every kept chunk is an input chunk.
KeptIsSubsequence ==
    pc = "dd_once" =>
        /\ \A i \in 1..Len(result.KeptChunks) :
              \E j \in 1..Len(chunks) : result.KeptChunks[i] = chunks[j]
        /\ \A i, j \in 1..Len(result.KeptChunks) :
              i < j => NumSuffix(result.KeptChunks[i].ID) < NumSuffix(result.KeptChunks[j].ID)
        /\ ChunksInInputOrder(result.KeptChunks)

\* C5 witness: two chunks kept around a dropped one.
KeptSubsequenceWitness ==
    /\ pc = "dd_once"
    /\ Len(result.KeptChunks) >= 2
    /\ \E id \in droppedIds(result.Dropped) :
          /\ Pos(result.KeptChunks[1].ID) < Pos(id)
          /\ Pos(id) < Pos(result.KeptChunks[Len(result.KeptChunks)].ID)

\* C6: ExactDups + NearDups = DroppedCount: every Dropped record has reason
\* exact_duplicate or near_duplicate and is counted once under its reason.
ExactPlusNear ==
    pc = "dd_once" =>
        /\ \A i \in 1..Len(result.Dropped) :
              result.Dropped[i].Reason \in {"exact_duplicate", "near_duplicate"}
        /\ result.Stats.ExactDups =
              Cardinality({i \in 1..Len(result.Dropped) :
                              result.Dropped[i].Reason = "exact_duplicate"})
        /\ result.Stats.NearDups =
              Cardinality({i \in 1..Len(result.Dropped) :
                              result.Dropped[i].Reason = "near_duplicate"})
        /\ result.Stats.ExactDups + result.Stats.NearDups = result.Stats.DroppedCount

\* C6 witness: a result with a record of each reason.
ExactPlusNearWitness ==
    /\ pc = "dd_once"
    /\ result.Stats.ExactDups >= 1
    /\ result.Stats.NearDups >= 1

\* C7: exactHashDedupe keeps the first chunk carrying a non-empty norm and
\* drops every later chunk with that norm, with reason exact_duplicate,
\* distance 0 and the first chunk's id as matched_chunk_id; kept and dropped
\* are each in input order.
ExactFirstKept ==
    pc = "dd_exact" =>
        /\ \A i \in 1..Len(chunks) :
              chunks[i].Norm # <<>> =>
                  IF FirstWithNorm(i) = i
                  THEN /\ \E n \in 1..Len(exOut.kept) : exOut.kept[n] = chunks[i]
                       /\ chunks[i].ID \notin droppedIds(exOut.dropped)
                  ELSE /\ chunks[i].ID \notin idsOf(exOut.kept)
                       /\ Cardinality({n \in 1..Len(exOut.dropped) :
                                          exOut.dropped[n].ChunkID = chunks[i].ID}) = 1
                       /\ \A n \in 1..Len(exOut.dropped) :
                             exOut.dropped[n].ChunkID = chunks[i].ID =>
                                 /\ exOut.dropped[n].Reason = "exact_duplicate"
                                 /\ exOut.dropped[n].Distance = 0
                                 /\ exOut.dropped[n].MatchedChunkID = chunks[FirstWithNorm(i)].ID
        /\ ChunksInInputOrder(exOut.kept)
        /\ DroppedInInputOrder(exOut.dropped)

\* C7 witness: three chunks of one norm, the last two dropped against the first.
ExactFirstKeptWitness ==
    /\ pc = "dd_exact"
    /\ Len(exOut.dropped) >= 2
    /\ exOut.dropped[1].MatchedChunkID = exOut.dropped[2].MatchedChunkID

\* C8: simhashDedupe drops a chunk exactly when one of the last W kept
\* signatures (all of them when window is 0) is within threshold of the
\* chunk's signature; with window 1 only the immediately preceding kept chunk
\* causes a drop.
SimhashDropsIffInWindow ==
    pc = "dd_simhash" =>
        \A i \in 1..Len(chunks) :
            LET before == KeptBefore(shOut.kept, i)
                win == InWindow(before, config.Window)
                near == \E n \in 1..Len(win) :
                           hammingDistance(Sig(i), SigOfId(win[n].ID))
                               <= config.SimHashThreshold
            IN /\ near <=> chunks[i].ID \in droppedIds(shOut.dropped)
               /\ ~near <=> chunks[i].ID \in idsOf(shOut.kept)
               /\ \A n \in 1..Len(shOut.dropped) :
                     (shOut.dropped[n].ChunkID = chunks[i].ID /\ config.Window = 1) =>
                         shOut.dropped[n].MatchedChunkID = before[Len(before)].ID

\* C8 witness: window 1 keeps a chunk that is within threshold of a kept chunk
\* older than the immediately preceding one.
SimhashWindowWitness ==
    /\ pc = "dd_simhash"
    /\ config.Window = 1
    /\ Len(shOut.kept) = 3
    /\ hammingDistance(SigOfId(shOut.kept[1].ID), SigOfId(shOut.kept[3].ID))
           <= config.SimHashThreshold

\* C9: under method simhash, KeptChunks is simhashDedupe of the survivors of
\* exactHashDedupe, and Dropped is the exact_duplicate records in input order
\* followed by the near_duplicate records in input order.
SimhashMethodComposition ==
    (pc = "dd_once" /\ config.Method = "simhash") =>
        /\ result.KeptChunks = simhashDedupe(exactHashDedupe(chunks).kept, config).kept
        /\ \E n \in 0..Len(result.Dropped) :
              LET head == SubSeq(result.Dropped, 1, n)
                  tail == SubSeq(result.Dropped, n + 1, Len(result.Dropped))
              IN /\ \A i \in 1..Len(head) : head[i].Reason = "exact_duplicate"
                 /\ \A i \in 1..Len(tail) : tail[i].Reason = "near_duplicate"
                 /\ DroppedInInputOrder(head)
                 /\ DroppedInInputOrder(tail)
                 /\ head = exactHashDedupe(chunks).dropped

\* C9 witness: an exact_duplicate record listed before the near_duplicate
\* record of an earlier chunk.
SimhashCompositionWitness ==
    /\ pc = "dd_once"
    /\ config.Method = "simhash"
    /\ Len(result.Dropped) = 2
    /\ result.Dropped[1].Reason = "exact_duplicate"
    /\ result.Dropped[2].Reason = "near_duplicate"
    /\ Pos(result.Dropped[2].ChunkID) < Pos(result.Dropped[1].ChunkID)

\* C10: under method both, a chunk is in KeptChunks exactly when
\* exactHashDedupe on the input keeps it and simhashDedupe on the input keeps
\* it; KeptChunks is in input order.
BothKeepsIntersection ==
    (pc = "dd_once" /\ config.Method = "both") =>
        /\ \A i \in 1..Len(chunks) :
              (\E n \in 1..Len(result.KeptChunks) : result.KeptChunks[n] = chunks[i])
                  <=> /\ chunks[i].ID \in idsOf(exactHashDedupe(chunks).kept)
                      /\ chunks[i].ID \in idsOf(simhashDedupe(chunks, config).kept)
        /\ Len(result.KeptChunks) = Cardinality(idsOf(result.KeptChunks))
        /\ ChunksInInputOrder(result.KeptChunks)

\* C10 witness: simhashDedupe alone keeps a chunk (its exact duplicate lies
\* outside the window) that exactHashDedupe drops, so it is not kept.
BothIntersectionWitness ==
    /\ pc = "dd_once"
    /\ config.Method = "both"
    /\ Len(result.KeptChunks) >= 2
    /\ \E b \in idsOf(chunks) :
          /\ b \notin idsOf(exactHashDedupe(chunks).kept)
          /\ b \in idsOf(simhashDedupe(chunks, config).kept)
          /\ b \notin idsOf(result.KeptChunks)

\* the records of a drop list that carry the chunk id
recordsFor(ds, id) == {ds[i] : i \in {j \in 1..Len(ds) : ds[j].ChunkID = id}}

\* C11: under method both, Dropped holds at most one record per chunk_id; the
\* record retained for an id is one of the two passes' records for it, none
\* of them has a smaller distance, and when the exact pass dropped the chunk
\* the retained record is the exact_duplicate one.
BothDroppedOnePerId ==
    (pc = "dd_once" /\ config.Method = "both") =>
        LET ex == exactHashDedupe(chunks).dropped
            sh == simhashDedupe(chunks, config).dropped
        IN /\ Len(result.Dropped) = Cardinality(droppedIds(result.Dropped))
           /\ droppedIds(result.Dropped) = droppedIds(ex) \cup droppedIds(sh)
           /\ \A n \in 1..Len(result.Dropped) :
                 LET d == result.Dropped[n]
                     cands == recordsFor(ex, d.ChunkID) \cup recordsFor(sh, d.ChunkID)
                 IN /\ d \in cands
                    /\ \A r \in cands : d.Distance <= r.Distance
                    /\ recordsFor(ex, d.ChunkID) # {} => d.Reason = "exact_duplicate"

\* C11 witness: a chunk dropped by both passes, its near_duplicate record at
\* the same distance 0 as its exact_duplicate record, which is retained.
BothDroppedWitness ==
    /\ pc = "dd_once"
    /\ config.Method = "both"
    /\ \E n \in 1..Len(result.Dropped) :
          LET d == result.Dropped[n]
          IN /\ d.Reason = "exact_duplicate"
             /\ \E r \in recordsFor(simhashDedupe(chunks, config).dropped, d.ChunkID) :
                   r.Reason = "near_duplicate" /\ r.Distance = 0

\* C12: Dedupe called with a method string other than exact, simhash or both
\* returns the kept list, dropped list and stats that Dedupe returns for
\* method simhash on the same chunks with the same k, threshold and window.
UnknownMethodIsSimhash ==
    (pc = "dd_once" /\ config.Method \notin {"exact", "simhash", "both"}) =>
        Dedupe(chunks, [config EXCEPT !.Method = "simhash"]) = {result}

\* C12 witness: an unknown method on a list with an exact and a near duplicate.
UnknownMethodWitness ==
    /\ pc = "dd_once"
    /\ config.Method = "fuzzy"
    /\ result.Stats.ExactDups >= 1
    /\ result.Stats.NearDups >= 1
    /\ result.Stats.KeptCount >= 1

(***************************************************************************)
(* Specification SpecValidate: Config.Validate applied to every Config     *)
(* whose integers range below, inside and above the valid intervals.       *)
(***************************************************************************)
MethodInputs == {"exact", "simhash", "both", "fuzzy", ""}
KInputs == -2..6
ThresholdInputs == -2..66
WindowInputs == {-2, -1, 0, 1, 249, 250, 251}

ValidateInputs ==
    [Method : MethodInputs, SimHashK : KInputs,
     SimHashThreshold : ThresholdInputs, Window : WindowInputs]

InitValidate ==
    /\ pc = "val_start"
    /\ ExecIdle
    /\ config \in ValidateInputs
    /\ chunks = <<>>
    /\ exOut = NoPairs
    /\ shOut = NoPairs
    /\ result = EmptyResult
    /\ result2 = EmptyResult
    /\ raw = <<>>
    /\ once = <<>>
    /\ twice = <<>>
    /\ TextIdle

RunValidate ==
    /\ pc = "val_start"
    /\ validated' = Validate(config)
    /\ pc' = "val_done"
    /\ UNCHANGED <<normVars, dedupeVars, srcText, minChars, chunked, chunkedCRLF,
                   chunkedCR, patterns, maxLength, filtered, title, includeChunkIDs,
                   rendered, written, execVars>>

NextValidate == RunValidate

SpecValidate == InitValidate /\ [][NextValidate]_vars

\* C13: after Config.Validate the method is exact, simhash or both,
\* SimHashK >= 1, 0 <= SimHashThreshold <= 64 and Window >= 0; a field that was
\* in range is unchanged; k <= 0 becomes 5, a negative threshold 6, a
\* threshold above 64 becomes 64, a negative window 250, another method simhash.
ValidateNormalizes ==
    pc = "val_done" =>
        /\ validated.Method \in {"exact", "simhash", "both"}
        /\ validated.SimHashK >= 1
        /\ validated.SimHashThreshold >= 0 /\ validated.SimHashThreshold <= 64
        /\ validated.Window >= 0
        /\ validated.Method =
              (IF config.Method \in {"exact", "simhash", "both"} THEN config.Method ELSE "simhash")
        /\ validated.SimHashK = (IF config.SimHashK >= 1 THEN config.SimHashK ELSE 5)
        /\ validated.SimHashThreshold =
              (IF config.SimHashThreshold > 64 THEN 64
               ELSE IF config.SimHashThreshold >= 0 THEN config.SimHashThreshold ELSE 6)
        /\ validated.Window = (IF config.Window >= 0 THEN config.Window ELSE 250)

\* C13 witness: every field out of range, k at the boundary 0 and the
\* threshold just above 64.
ValidateWitness ==
    /\ pc = "val_done"
    /\ config = [Method |-> "fuzzy", SimHashK |-> 0, SimHashThreshold |-> 65, Window |-> -1]
    /\ validated = [Method |-> "simhash", SimHashK |-> 5, SimHashThreshold |-> 64, Window |-> 250]

(***************************************************************************)
(* Specification SpecChunk: ChunkText called on every text over            *)
(* ChunkAlphabet of length <= MaxTextLen with every min_chunk_chars of     *)
(* MinCharsInputs, and then, for a text without \r, on the same text with  *)
(* its line breaks written \r\n and written \r.                            *)
(***************************************************************************)
MaxTextLen == 5

\* 'A', ' ', '\n', '\r'
ChunkAlphabet == {65, SP, LF, CR}

MinCharsInputs == -1..3

\* the text with every \n replaced by the line break nl
RECURSIVE withLineBreak(_, _)
withLineBreak(s, nl) ==
    IF s = <<>> THEN <<>>
    ELSE (IF Head(s) = LF THEN nl ELSE <<Head(s)>>) \o withLineBreak(Tail(s), nl)

InitChunk ==
    /\ pc = "ck_start"
    /\ ExecIdle
    /\ srcText \in SeqsUpTo(ChunkAlphabet, MaxTextLen)
    /\ minChars \in MinCharsInputs
    /\ chunked = <<>>
    /\ chunkedCRLF = <<>>
    /\ chunkedCR = <<>>
    /\ validated = DefaultConfig
    /\ patterns = <<>>
    /\ maxLength = 0
    /\ filtered = <<>>
    /\ title = <<>>
    /\ includeChunkIDs = FALSE
    /\ rendered = <<>>
    /\ written = <<>>
    /\ chunks = <<>>
    /\ config = DefaultConfig
    /\ exOut = NoPairs
    /\ shOut = NoPairs
    /\ result = EmptyResult
    /\ result2 = EmptyResult
    /\ raw = <<>>
    /\ once = <<>>
    /\ twice = <<>>

RunChunk ==
    /\ pc = "ck_start"
    /\ chunked' = ChunkText(srcText, minChars)
    /\ pc' = "ck_done"
    /\ UNCHANGED <<normVars, dedupeVars, validated, srcText, minChars, chunkedCRLF,
                   chunkedCR, patterns, maxLength, filtered, title, includeChunkIDs,
                   rendered, written, execVars>>

RunChunkLineEndings ==
    /\ pc = "ck_done"
    /\ \A i \in 1..Len(srcText) : srcText[i] # CR
    /\ chunkedCRLF' = ChunkText(withLineBreak(srcText, <<CR, LF>>), minChars)
    /\ chunkedCR' = ChunkText(withLineBreak(srcText, <<CR>>), minChars)
    /\ pc' = "ck_endings"
    /\ UNCHANGED <<normVars, dedupeVars, validated, srcText, minChars, chunked,
                   patterns, maxLength, filtered, title, includeChunkIDs,
                   rendered, written, execVars>>

NextChunk == RunChunk \/ RunChunkLineEndings

SpecChunk == InitChunk /\ [][NextChunk]_vars

\* the blank-line-delimited segments of the input text, trimmed
trimmedSegments ==
    IF srcText = <<>> THEN <<>>
    ELSE LET segs == blankLineSplit(srcText)
         IN [i \in 1..Len(segs) |-> TrimSpace(segs[i])]

textsOf(cs) == [n \in 1..Len(cs) |-> cs[n].Text]

\* C14: the n-th chunk ChunkText emits has id "c" followed by n in four
\* digits and Index n-1, and its Norm is Normalize of its Text.
ChunkNumbering ==
    pc \in {"ck_done", "ck_endings"} =>
        \A n \in 1..Len(chunked) :
            /\ chunked[n].ID = <<99, 48, 48, 48, 48 + n>>
            /\ chunked[n].Index = n - 1
            /\ chunked[n].Norm = Normalize(chunked[n].Text)

\* C14 witness: two chunks with different texts, the second numbered c0002.
ChunkNumberingWitness ==
    /\ pc = "ck_done"
    /\ Len(chunked) = 2
    /\ chunked[1].Text # chunked[2].Text
    /\ chunked[2].ID = <<99, 48, 48, 48, 50>>
    /\ chunked[2].Norm # chunked[2].Text

\* C15: ChunkText emits a chunk for a segment exactly when the segment's
\* trimmed length is >= min_chunk_chars, each chunk's text being one trimmed
\* segment: the chunk texts are the long-enough trimmed segments, in order.
ChunkIffLongEnough ==
    pc = "ck_done" =>
        LET Long(seg) == Len(seg) >= minChars
        IN textsOf(chunked) = SelectSeq(trimmedSegments, Long)

\* C16: for min_chunk_chars >= 0, ChunkText returns no chunks for the empty
\* string and for a text of spaces, tabs and newlines only.
WhitespaceYieldsNoChunks ==
    (/\ pc = "ck_done"
     /\ minChars >= 0
     /\ \A i \in 1..Len(srcText) : srcText[i] \in {SP, TAB, LF}) =>
        chunked = <<>>

\* C17: a text with \n line breaks, the same text with \r\n line breaks and
\* the same text with \r line breaks yield the same number of chunks with the
\* same ids in the same order, split at the same paragraph boundaries.
LineEndingsAlike ==
    pc = "ck_endings" =>
        /\ Len(chunkedCRLF) = Len(chunked)
        /\ Len(chunkedCR) = Len(chunked)
        /\ \A n \in 1..Len(chunked) :
              /\ chunkedCRLF[n].ID = chunked[n].ID
              /\ chunkedCR[n].ID = chunked[n].ID
              /\ chunkedCRLF[n].Text = withLineBreak(chunked[n].Text, <<CR, LF>>)
              /\ chunkedCR[n].Text = withLineBreak(chunked[n].Text, <<CR>>)

(***************************************************************************)
(* Specification SpecFilter: FilterChrome called on every list of at most  *)
(* MaxFilterChunks chunks with texts from FilterTexts, every list of at    *)
(* most MaxPatterns patterns from PatternPool and every maxLength of       *)
(* MaxLengthInputs.                                                        *)
(***************************************************************************)
MaxFilterChunks == 3
MaxPatterns == 2

\* "abcabc", "xyz", "ab", "?!" (norms "abcabc", "xyz", "ab", "")
FilterTexts == {<<97, 98, 99, 97, 98, 99>>, <<120, 121, 122>>, <<97, 98>>, <<63, 33>>}

\* "ab", "xyz|ab", "[ab" (does not compile), "q"
PatternPool == {<<97, 98>>, <<120, 121, 122, 124, 97, 98>>, <<91, 97, 98>>, <<113>>}

\* runCommand passes 100; 2 and 3 sit on the lengths of the norms
MaxLengthInputs == {0, 2, 3, 100}

FilterChunkLists ==
    UNION {{[i \in 1..n |-> MkChunk(i, t[i])] : t \in [1..n -> FilterTexts]} :
           n \in 0..MaxFilterChunks}

InitFilter ==
    /\ pc = "fc_start"
    /\ ExecIdle
    /\ chunks \in FilterChunkLists
    /\ patterns \in SeqsUpTo(PatternPool, MaxPatterns)
    /\ maxLength \in MaxLengthInputs
    /\ filtered = <<>>
    /\ validated = DefaultConfig
    /\ srcText = <<>>
    /\ minChars = 0
    /\ chunked = <<>>
    /\ chunkedCRLF = <<>>
    /\ chunkedCR = <<>>
    /\ title = <<>>
    /\ includeChunkIDs = FALSE
    /\ rendered = <<>>
    /\ written = <<>>
    /\ config = DefaultConfig
    /\ exOut = NoPairs
    /\ shOut = NoPairs
    /\ result = EmptyResult
    /\ result2 = EmptyResult
    /\ raw = <<>>
    /\ once = <<>>
    /\ twice = <<>>

RunFilter ==
    /\ pc = "fc_start"
    /\ filtered' = FilterChrome(chunks, patterns, maxLength)
    /\ pc' = "fc_done"
    /\ UNCHANGED <<normVars, dedupeVars, validated, srcText, minChars, chunked,
                   chunkedCRLF, chunkedCR, patterns, maxLength, title,
                   includeChunkIDs, rendered, written, execVars>>

NextFilter == RunFilter

SpecFilter == InitFilter /\ [][NextFilter]_vars

\* C18: FilterChrome returns, in input order, exactly the input chunks for
\* which it is not the case that len(norm) < max_length and some compilable
\* pattern matches norm; a pattern that does not compile drops nothing.
FilterKeepsUnlessShortMatch ==
    pc = "fc_done" =>
        LET Dropped(c) ==
                /\ Len(c.Norm) < maxLength
                /\ \E i \in 1..Len(patterns) :
                      regexpCompiles(patterns[i]) /\ MatchString(patterns[i], c.Norm)
            Kept(c) == ~Dropped(c)
        IN filtered = SelectSeq(chunks, Kept)

\* C18 witness: one pattern that does not compile and one that does; the
\* short matching chunk in the middle is dropped, the matching chunk whose
\* norm is exactly max_length bytes long and the non-matching one are kept.
FilterWitness ==
    /\ pc = "fc_done"
    /\ Len(patterns) = 2
    /\ ~regexpCompiles(patterns[1])
    /\ regexpCompiles(patterns[2])
    /\ Len(chunks) = 3
    /\ filtered = <<chunks[1], chunks[3]>>
    /\ MatchString(patterns[2], chunks[1].Norm)
    /\ Len(chunks[1].Norm) = maxLength
    /\ ~MatchString(patterns[2], chunks[3].Norm)
    /\ Len(chunks[3].Norm) < maxLength

(***************************************************************************)
(* Specification SpecMarkdown: RenderMarkdown called on every title of     *)
(* TitlePool and every kept list of at most MaxKept chunks with texts from *)
(* KeptTexts, then WriteMarkdown on its output; os.Create may fail.        *)
(***************************************************************************)
MaxKept == 2

\* "", "T", "T\r", "T\n", "T\r\nU", "T\nU"
TitlePool == {<<>>, <<84>>, <<84, CR>>, <<84, LF>>, <<84, CR, LF, 85>>, <<84, LF, 85>>}

\* chunk texts as ChunkText leaves them: "A", "b\r\nc", "b\rc", "b\nc"
KeptTexts == {<<65>>, <<98, CR, LF, 99>>, <<98, CR, 99>>, <<98, LF, 99>>}

KeptLists ==
    UNION {{[i \in 1..n |-> MkChunk(i, t[i])] : t \in [1..n -> KeptTexts]} :
           n \in 0..MaxKept}

InitMarkdown ==
    /\ pc = "md_start"
    /\ ExecIdle
    /\ chunks \in KeptLists
    /\ title \in TitlePool
    /\ includeChunkIDs \in BOOLEAN
    /\ rendered = <<>>
    /\ written = <<>>
    /\ validated = DefaultConfig
    /\ srcText = <<>>
    /\ minChars = 0
    /\ chunked = <<>>
    /\ chunkedCRLF = <<>>
    /\ chunkedCR = <<>>
    /\ patterns = <<>>
    /\ maxLength = 0
    /\ filtered = <<>>
    /\ config = DefaultConfig
    /\ exOut = NoPairs
    /\ shOut = NoPairs
    /\ result = EmptyResult
    /\ result2 = EmptyResult
    /\ raw = <<>>
    /\ once = <<>>
    /\ twice = <<>>

RunRender ==
    /\ pc = "md_start"
    /\ rendered' = RenderMarkdown(title, chunks, includeChunkIDs)
    /\ pc' = "md_rendered"
    /\ UNCHANGED <<normVars, dedupeVars, validated, srcText, minChars, chunked,
                   chunkedCRLF, chunkedCR, patterns, maxLength, filtered, title,
                   includeChunkIDs, written, execVars>>

\* WriteMarkdown(rendered, path): os.Create succeeds or fails
RunWrite ==
    /\ pc = "md_rendered"
    /\ \E created \in BOOLEAN :
          IF created
          THEN written' = normalizedContent(rendered) /\ pc' = "md_written"
          ELSE written' = written /\ pc' = "md_failed"
    /\ UNCHANGED <<normVars, dedupeVars, validated, srcText, minChars, chunked,
                   chunkedCRLF, chunkedCR, patterns, maxLength, filtered, title,
                   includeChunkIDs, rendered, execVars>>

NextMarkdown == RunRender \/ RunWrite

SpecMarkdown == InitMarkdown /\ [][NextMarkdown]_vars

\* the written content has no \r and ends with one \n, not two
NoCREndsWithOneLF ==
    /\ \A i \in 1..Len(written) : written[i] # CR
    /\ Len(written) >= 1
    /\ written[Len(written)] = LF
    /\ Len(written) >= 2 => written[Len(written) - 1] # LF

\* "# " + title, "# Extracted Notes" for the empty title
headerLine == HeaderPrefix \o (IF title = <<>> THEN DefaultTitle ELSE title)

\* C19: for every title and kept list the written content contains no \r and
\* ends with exactly one \n; with zero kept chunks it is exactly the header
\* line "# " + title ("# Extracted Notes" for the empty title) and one \n.
MarkdownContentShape ==
    pc = "md_written" =>
        /\ NoCREndsWithOneLF
        /\ Len(chunks) = 0 => written = Append(headerLine, LF)

\* C19 amended: as above, the zero-chunk content being the header line and
\* one \n for a title that contains no \r and does not end in \n.
MarkdownContentShapePlainTitle ==
    pc = "md_written" =>
        /\ NoCREndsWithOneLF
        /\ (/\ Len(chunks) = 0
            /\ \A i \in 1..Len(title) : title[i] # CR
            /\ title = <<>> \/ title[Len(title)] # LF) =>
              written = Append(headerLine, LF)

\* C19 witness: a title with a \r\n and a kept text with a lone \r, written.
MarkdownWitness ==
    /\ pc = "md_written"
    /\ Len(chunks) = 2
    /\ \E i \in 1..Len(title) : title[i] = CR
    /\ \E i \in 1..Len(chunks[2].Text) : chunks[2].Text[i] = CR
    /\ includeChunkIDs
    /\ Len(written) > Len(headerLine) + 2

(***************************************************************************)
(* Specification SpecRoundTrip: the stages of runCommand from ChunkText to *)
(* WriteMarkdown, on every text over ChunkAlphabet of length <= MaxTextLen.*)
(***************************************************************************)
RoundTripMinChars == 0..2

RoundTripConfigs == {DefaultConfig, [DefaultConfig EXCEPT !.Method = "exact"]}

\* "T"
RoundTripTitle == <<84>>

InitRoundTrip ==
    /\ pc = "rt_start"
    /\ ExecIdle
    /\ srcText \in SeqsUpTo(ChunkAlphabet, MaxTextLen)
    /\ minChars \in RoundTripMinChars
    /\ config \in RoundTripConfigs
    /\ title = RoundTripTitle
    /\ includeChunkIDs \in BOOLEAN
    /\ chunked = <<>>
    /\ chunkedCRLF = <<>>
    /\ chunkedCR = <<>>
    /\ validated = DefaultConfig
    /\ patterns = <<>>
    /\ maxLength = 0
    /\ filtered = <<>>
    /\ rendered = <<>>
    /\ written = <<>>
    /\ chunks = <<>>
    /\ exOut = NoPairs
    /\ shOut = NoPairs
    /\ result = EmptyResult
    /\ result2 = EmptyResult
    /\ raw = <<>>
    /\ once = <<>>
    /\ twice = <<>>

ChunkStage ==
    /\ pc = "rt_start"
    /\ chunked' = ChunkText(srcText, minChars)
    /\ pc' = "rt_chunked"
    /\ UNCHANGED <<normVars, dedupeVars, validated, srcText, minChars, chunkedCRLF,
                   chunkedCR, patterns, maxLength, filtered, title, includeChunkIDs,
                   rendered, written, execVars>>

DedupeStage ==
    /\ pc = "rt_chunked"
    /\ result' \in Dedupe(chunked, config)
    /\ pc' = "rt_deduped"
    /\ UNCHANGED <<normVars, chunks, config, exOut, shOut, result2, textVars, execVars>>

RenderStage ==
    /\ pc = "rt_deduped"
    /\ rendered' = RenderMarkdown(title, result.KeptChunks, includeChunkIDs)
    /\ pc' = "rt_rendered"
    /\ UNCHANGED <<normVars, dedupeVars, validated, srcText, minChars, chunked,
                   chunkedCRLF, chunkedCR, patterns, maxLength, filtered, title,
                   includeChunkIDs, written, execVars>>

WriteStage ==
    /\ pc = "rt_rendered"
    /\ \E created \in BOOLEAN :
          IF created
          THEN written' = normalizedContent(rendered) /\ pc' = "rt_written"
          ELSE written' = written /\ pc' = "rt_failed"
    /\ UNCHANGED <<normVars, dedupeVars, validated, srcText, minChars, chunked,
                   chunkedCRLF, chunkedCR, patterns, maxLength, filtered, title,
                   includeChunkIDs, rendered, execVars>>

NextRoundTrip == ChunkStage \/ DedupeStage \/ RenderStage \/ WriteStage

SpecRoundTrip == InitRoundTrip /\ [][NextRoundTrip]_vars

\* the written content after the title header line
writtenBody == SubSeq(written, Len(headerLine) + 2, Len(written))

\* s without its leading and trailing \n
RECURSIVE trimLF(_)
trimLF(s) ==
    IF s # <<>> /\ Head(s) = LF THEN trimLF(Tail(s))
    ELSE IF s # <<>> /\ s[Len(s)] = LF THEN trimLF(SubSeq(s, 1, Len(s) - 1))
    ELSE s

\* a part without the "<!-- id -->" line in front of it
withoutIdComment(part) ==
    IF Len(part) >= Len(CommentOpen) /\ SubSeq(part, 1, Len(CommentOpen)) = CommentOpen
    THEN LET ends == {i \in 1..Len(part) : part[i] = LF}
         IN IF ends = {} THEN <<>> ELSE SubSeq(part, Min(ends) + 1, Len(part))
    ELSE part

\* the parts of the written body between its blank lines
bodyParts ==
    LET body == trimLF(writtenBody)
    IN IF body = <<>> THEN <<>>
       ELSE LET parts == blankLineSplit(body)
            IN [i \in 1..Len(parts) |-> withoutIdComment(parts[i])]

\* C20: for the kept list of ChunkText followed by Dedupe, rendered and
\* written, the parts of the written body between blank lines are exactly
\* the kept chunk texts, one per part, in the same order.
RoundTripOnContent ==
    pc = "rt_written" => bodyParts = textsOf(result.KeptChunks)

\* C25: exactHashDedupe keeps every chunk whose norm is empty, emits no
\* Dropped record for such a chunk, and no exact_duplicate record names such
\* a chunk as its matched_chunk_id.
ExactKeepsEmptyNorm ==
    pc = "dd_exact" =>
        /\ \A i \in 1..Len(chunks) :
              chunks[i].Norm = <<>> =>
                  /\ \E n \in 1..Len(exOut.kept) : exOut.kept[n] = chunks[i]
                  /\ chunks[i].ID \notin droppedIds(exOut.dropped)
        /\ \A n \in 1..Len(exOut.dropped) :
              /\ Pos(exOut.dropped[n].MatchedChunkID) > 0
              /\ chunks[Pos(exOut.dropped[n].MatchedChunkID)].Norm # <<>>

\* C25 witness: at least two chunks with an empty norm, every chunk kept.
ExactEmptyNormWitness ==
    /\ pc = "dd_exact"
    /\ Cardinality({i \in 1..Len(chunks) : chunks[i].Norm = <<>>}) >= 2
    /\ Len(exOut.kept) = Len(chunks)

(***************************************************************************)
(* Specification SpecScan: the loop of simhashDedupe, one iteration per    *)
(* step, on every list of at most MaxScanChunks chunks with texts from     *)
(* ScanTexts, thresholds 0..2 and windows 0..2.  shOut holds kept,         *)
(* keptSignatures and dropped; the loop index is their common length.      *)
(***************************************************************************)
MaxScanChunks == 3

ScanThresholds == 0..2
ScanWindows == 0..2

ScanConfigs ==
    [Method : {"simhash"}, SimHashK : SimHashKs, SimHashThreshold : ScanThresholds,
     Window : ScanWindows]

ScanChunkLists ==
    UNION {{[i \in 1..n |-> MkChunk(i, t[i])] : t \in [1..n -> ScanTexts]} :
           n \in 0..MaxScanChunks}

\* the number of chunks the loop has processed
scanned == Len(shOut.kept) + Len(shOut.dropped)

InitScan ==
    /\ pc = "sc_loop"
    /\ ExecIdle
    /\ chunks \in ScanChunkLists
    /\ config \in ScanConfigs
    /\ shOut = ScanStart
    /\ exOut = NoPairs
    /\ result = EmptyResult
    /\ result2 = EmptyResult
    /\ raw = <<>>
    /\ once = <<>>
    /\ twice = <<>>
    /\ TextIdle

ScanStep ==
    /\ pc = "sc_loop"
    /\ scanned < Len(chunks)
    /\ LET chunk == chunks[scanned + 1]
       IN shOut' = simStep(chunk, signatureOf(chunk.Norm, config.SimHashK), config,
                           windowSizeOf(chunks, config), shOut)
    /\ UNCHANGED <<pc, chunks, config, exOut, result, result2, normVars, textVars, execVars>>

ScanReturn ==
    /\ pc = "sc_loop"
    /\ scanned = Len(chunks)
    /\ pc' = "sc_done"
    /\ UNCHANGED <<chunks, config, exOut, shOut, result, result2, normVars, textVars, execVars>>

NextScan == ScanStep \/ ScanReturn

SpecScan == InitScan /\ [][NextScan]_vars

\* the chunk of the last iteration was appended to kept
lastKept ==
    /\ scanned >= 1
    /\ Len(shOut.kept) >= 1
    /\ shOut.kept[Len(shOut.kept)] = chunks[scanned]

\* the last iteration dropped its chunk
lastDropped == scanned >= 1 /\ ~lastKept

\* the kept list the last iteration compared its chunk against
keptBeforeLast ==
    IF lastKept THEN SubSeq(shOut.kept, 1, Len(shOut.kept) - 1) ELSE shOut.kept

\* the positions of that list inside the comparison window
windowBeforeLast ==
    {p \in 1..Len(keptBeforeLast) :
        config.Window = 0 \/ p > Len(keptBeforeLast) - config.Window}

sigOfChunk(c) == signatureOf(c.Norm, config.SimHashK)

\* Hamming distance from the last iteration's chunk to position p of that list
distFromLast(p) == hammingDistance(sigOfChunk(chunks[scanned]), sigOfChunk(keptBeforeLast[p]))

shortNorm(c) == Len(c.Norm) < config.SimHashK

\* C24: when simhashDedupe drops a chunk, the recorded distance is the minimum
\* Hamming distance from its signature to the signatures in the comparison
\* window, and matched_chunk_id is the earliest window chunk at that distance.
DropRecordsWindowMinimum ==
    lastDropped =>
        LET d == shOut.dropped[Len(shOut.dropped)]
        IN /\ d.ChunkID = chunks[scanned].ID
           /\ windowBeforeLast # {}
           /\ d.Distance = Min({distFromLast(p) : p \in windowBeforeLast})
           /\ d.MatchedChunkID =
                 keptBeforeLast[Min({p \in windowBeforeLast : distFromLast(p) = d.Distance})].ID

\* C24 witness: the dropped chunk is at the same minimal distance from two
\* chunks of the window; the earlier one is recorded.
DropTieWitness ==
    /\ lastDropped
    /\ \E p, q \in windowBeforeLast :
          /\ p < q
          /\ distFromLast(p) = distFromLast(q)
          /\ distFromLast(p) = shOut.dropped[Len(shOut.dropped)].Distance
          /\ shOut.dropped[Len(shOut.dropped)].MatchedChunkID = keptBeforeLast[p].ID

\* C29: after every step of the scan, two kept chunks whose positions in the
\* kept list differ by at most the window (any two when the window is 0) have
\* signatures at Hamming distance strictly greater than the threshold.
KeptApartInWindow ==
    \A p, q \in 1..Len(shOut.kept) :
        (p < q /\ (config.Window = 0 \/ q - p <= config.Window)) =>
            hammingDistance(sigOfChunk(shOut.kept[p]), sigOfChunk(shOut.kept[q]))
                > config.SimHashThreshold

\* C29 witness: window 1, three kept chunks, the first and the third within
\* the threshold of each other.
KeptApartWitness ==
    /\ config.Window = 1
    /\ Len(shOut.kept) = 3
    /\ hammingDistance(sigOfChunk(shOut.kept[1]), sigOfChunk(shOut.kept[3]))
           <= config.SimHashThreshold
    /\ hammingDistance(sigOfChunk(shOut.kept[2]), sigOfChunk(shOut.kept[3])) = 3

\* C30: a chunk whose norm is shorter than k bytes has signature 0, and it is
\* dropped with reason near_duplicate and distance 0 when a kept chunk with
\* such a norm is inside the comparison window.
ShortNormsCollide ==
    /\ \A i \in 1..Len(chunks) : shortNorm(chunks[i]) => sigOfChunk(chunks[i]) = U64Zero
    /\ (/\ scanned >= 1
        /\ shortNorm(chunks[scanned])
        /\ \E p \in windowBeforeLast : shortNorm(keptBeforeLast[p])) =>
            /\ lastDropped
            /\ shOut.dropped[Len(shOut.dropped)].ChunkID = chunks[scanned].ID
            /\ shOut.dropped[Len(shOut.dropped)].Reason = "near_duplicate"
            /\ shOut.dropped[Len(shOut.dropped)].Distance = 0

\* C30 witness: threshold 0; a chunk with an empty norm is dropped against a
\* kept chunk whose norm is "ab".
ShortNormsWitness ==
    /\ config.SimHashThreshold = 0
    /\ lastDropped
    /\ chunks[scanned].Norm = <<>>
    /\ \E p \in windowBeforeLast :
          /\ keptBeforeLast[p].Norm = <<97, 98>>
          /\ shOut.dropped[Len(shOut.dropped)].MatchedChunkID = keptBeforeLast[p].ID

(***************************************************************************)
(* Specification SpecWriter: up to MaxWrites calls of Write, each with a   *)
(* slice of at most MaxWriteLen bytes, on a limitedWriter whose limit is   *)
(* at most MaxLimit.  lw.w is the writer, lw.offered the bytes of all the  *)
(* calls so far, lw.ret the values the last call returned.                 *)
(***************************************************************************)
MaxLimit == 3
MaxWriteLen == 2
MaxWrites == 3

\* 'a', 'b'
WriterAlphabet == {97, 98}

InitWriter ==
    /\ pc = "lw_ready"
    /\ \E maxBytes \in 0..MaxLimit :
          lw = [w |-> newLimitedWriter(maxBytes), offered |-> <<>>, calls |-> 0,
                last |-> <<>>, ret |-> [n |-> 0, err |-> "nil"]]
    /\ run = <<>>
    /\ report = <<>>
    /\ proc = <<>>
    /\ chunks = <<>>
    /\ config = DefaultConfig
    /\ exOut = NoPairs
    /\ shOut = NoPairs
    /\ result = EmptyResult
    /\ result2 = EmptyResult
    /\ raw = <<>>
    /\ once = <<>>
    /\ twice = <<>>
    /\ TextIdle

WriteCall ==
    /\ pc = "lw_ready"
    /\ lw.calls < MaxWrites
    /\ \E p \in SeqsUpTo(WriterAlphabet, MaxWriteLen) :
          lw' = [w |-> writerAfter(lw.w, p), offered |-> lw.offered \o p,
                 calls |-> lw.calls + 1, last |-> p, ret |-> writeReturns(lw.w, p)]
    /\ UNCHANGED <<pc, normVars, dedupeVars, textVars, run, report, proc>>

NextWriter == WriteCall

SpecWriter == InitWriter /\ [][NextWriter]_vars

hasSuffix(s, suffix) ==
    Len(s) >= Len(suffix) /\ SubSeq(s, Len(s) - Len(suffix) + 1, Len(s)) = suffix

\* C28: after any sequence of Write calls the buffer holds the first
\* min(total offered, maxBytes) bytes offered, every Write returned len(p) and
\* a nil error, and String() ends with the truncation marker exactly when an
\* offered byte was discarded.
LimitedWriterExact ==
    pc = "lw_ready" =>
        /\ lw.w.buf = SubSeq(lw.offered, 1, Min({Len(lw.offered), lw.w.maxBytes}))
        /\ Len(lw.w.buf) <= lw.w.maxBytes
        /\ lw.ret.n = Len(lw.last)
        /\ lw.ret.err = "nil"
        /\ hasSuffix(writerString(lw.w), TruncationMarker)
              <=> Len(lw.offered) > lw.w.maxBytes

(***************************************************************************)
(* Specification SpecRunner: one call of Runner.Run.  The command starts   *)
(* or fails to start, exits by itself or is killed when the context ends;  *)
(* the timeout of opts.Timeout and the cancellation of the parent context  *)
(* can happen at any moment up to the error handling, also after cmd.Run   *)
(* has returned.  ProcessState.ExitCode() is -1 for a command that did not *)
(* start or was killed.                                                    *)
(***************************************************************************)
ExitCodes == 0..3

InitRunner ==
    /\ pc = "rn_call"
    /\ \E hasTimeout \in BOOLEAN, cancelled \in BOOLEAN :
          proc = [hasTimeout |-> hasTimeout, timeoutElapsed |-> FALSE,
                  parentCancelled |-> cancelled,
                  ctxErr |-> IF cancelled THEN "Canceled" ELSE "nil",
                  started |-> FALSE, ExitCode |-> -1, runErr |-> "nil",
                  ret |-> [err |-> "nil", ExitCode |-> 0]]
    /\ run = <<>>
    /\ report = <<>>
    /\ lw = <<>>
    /\ chunks = <<>>
    /\ config = DefaultConfig
    /\ exOut = NoPairs
    /\ shOut = NoPairs
    /\ result = EmptyResult
    /\ result2 = EmptyResult
    /\ raw = <<>>
    /\ once = <<>>
    /\ twice = <<>>
    /\ TextIdle

\* context.WithTimeout's timer fires
TimeoutFires ==
    /\ pc \in {"rn_call", "rn_running", "rn_waited"}
    /\ proc.hasTimeout
    /\ ~proc.timeoutElapsed
    /\ proc' = [proc EXCEPT !.timeoutElapsed = TRUE,
                             !.ctxErr = ctxErrAfter(proc, "DeadlineExceeded")]
    /\ UNCHANGED <<pc, normVars, dedupeVars, textVars, run, report, lw>>

\* the caller cancels the parent context
ParentCancels ==
    /\ pc \in {"rn_call", "rn_running", "rn_waited"}
    /\ ~proc.parentCancelled
    /\ proc' = [proc EXCEPT !.parentCancelled = TRUE,
                             !.ctxErr = ctxErrAfter(proc, "Canceled")]
    /\ UNCHANGED <<pc, normVars, dedupeVars, textVars, run, report, lw>>

\* cmd.Run starts the command; with a context already done, or a binary that
\* cannot be started, it returns an error and ProcessState stays nil
StartCommand ==
    /\ pc = "rn_call"
    /\ \/ /\ proc.ctxErr # "nil"
          /\ proc' = [proc EXCEPT !.runErr = proc.ctxErr]
          /\ pc' = "rn_waited"
       \/ /\ proc.ctxErr = "nil"
          /\ proc' = [proc EXCEPT !.runErr = "start error"]
          /\ pc' = "rn_waited"
       \/ /\ proc.ctxErr = "nil"
          /\ proc' = [proc EXCEPT !.started = TRUE]
          /\ pc' = "rn_running"
    /\ UNCHANGED <<normVars, dedupeVars, textVars, run, report, lw>>

\* the command exits by itself; when the context has ended meanwhile, Wait
\* may report the context's error even for exit code 0
ProcessExits ==
    /\ pc = "rn_running"
    /\ \E code \in ExitCodes, ctxReported \in BOOLEAN :
          /\ ctxReported => (code = 0 /\ proc.ctxErr # "nil")
          /\ proc' = [proc EXCEPT !.ExitCode = code,
                                  !.runErr = IF code # 0 THEN "ExitError"
                                             ELSE IF ctxReported THEN proc.ctxErr
                                             ELSE "nil"]
    /\ pc' = "rn_waited"
    /\ UNCHANGED <<normVars, dedupeVars, textVars, run, report, lw>>

\* exec.CommandContext kills the command once the context is done
ContextKills ==
    /\ pc = "rn_running"
    /\ proc.ctxErr # "nil"
    /\ proc' = [proc EXCEPT !.ExitCode = -1, !.runErr = "ExitError"]
    /\ pc' = "rn_waited"
    /\ UNCHANGED <<normVars, dedupeVars, textVars, run, report, lw>>

\* the error handling after cmd.Run, and the return
RunReturns ==
    /\ pc = "rn_waited"
    /\ proc' = [proc EXCEPT !.ret = runClassify(proc)]
    /\ pc' = "rn_returned"
    /\ UNCHANGED <<normVars, dedupeVars, textVars, run, report, lw>>

NextRunner ==
    TimeoutFires \/ ParentCancels \/ StartCommand \/ ProcessExits \/ ContextKills \/ RunReturns

SpecRunner == InitRunner /\ [][NextRunner]_vars

\* the parts of C27 that do not speak of timeout or cancellation: a nil error
\* only for a command that ran and exited with code 0; a non-zero exit with
\* no timeout and no cancellation gives an ExecError carrying the exit code
NilOnlyOnSuccessExecErrorOnExit ==
    /\ proc.ret.err = "nil" => (proc.started /\ proc.ExitCode = 0)
    /\ (/\ proc.started
        /\ proc.ExitCode # 0
        /\ ~proc.timeoutElapsed
        /\ ~proc.parentCancelled) =>
            (proc.ret.err = "ExecError" /\ proc.ret.ExitCode = proc.ExitCode)

\* C27: Run returns nil only for exit code 0, an ExecError with the exit code
\* for a non-zero exit without timeout or cancellation, a 'timed out' error
\* when opts.Timeout elapsed and a 'canceled' error when the parent context
\* was cancelled.
RunClassifiesOutcomes ==
    pc = "rn_returned" =>
        /\ NilOnlyOnSuccessExecErrorOnExit
        /\ proc.timeoutElapsed => proc.ret.err = "timed out"
        /\ proc.parentCancelled => proc.ret.err = "canceled"

\* C27 amended: as above for nil and ExecError; when cmd.Run returned an
\* error, the error is 'timed out' if the timeout ended the context first
\* and 'canceled' if the cancellation did, whatever the exit code; when
\* cmd.Run returned no error, Run returns nil.
RunClassifiesByContextError ==
    pc = "rn_returned" =>
        /\ NilOnlyOnSuccessExecErrorOnExit
        /\ (proc.runErr # "nil" /\ proc.ctxErr = "DeadlineExceeded") =>
              (proc.timeoutElapsed /\ proc.ret.err = "timed out")
        /\ (proc.runErr # "nil" /\ proc.ctxErr = "Canceled") =>
              (proc.parentCancelled /\ proc.ret.err = "canceled")
        /\ proc.runErr = "nil" => proc.ret.err = "nil"
        /\ proc.ret.ExitCode = proc.ExitCode

\* C27 witness: the timeout elapsed, the command was killed (exit code -1,
\* not 0), and Run returned the 'timed out' error, not an ExecError.
RunTimedOutWitness ==
    /\ pc = "rn_returned"
    /\ proc.started
    /\ proc.timeoutElapsed
    /\ ~proc.parentCancelled
    /\ proc.ExitCode = -1
    /\ proc.ret.err = "timed out"

(***************************************************************************)
(* Specification SpecRun: one call of runCommand, one action per stage.    *)
(* Every external call succeeds or fails; the chunking and deduplication   *)
(* between reading the text and writing the report cannot fail except for  *)
(* the optional chunks_raw.jsonl.                                          *)
(***************************************************************************)
CleanupPDF == "CleanupArtifact(combined.pdf)"
CleanupOCR == "CleanupArtifact(combined_ocr.pdf)"
ReportFile == "dedupe_report.json"
MarkdownFile == "result.md"

\* what WriteMarkdown can meet: os.Create fails, WriteString fails, or the
\* deferred Flush fails (logged by WriteMarkdown, nil returned)
MarkdownOutcomes == {"ok", "create failed", "write failed", "flush failed"}

\* what can go wrong before the first stage; "no images" returns nil
PrepareOutcomes ==
    {"ok", "input directory does not exist", "failed to create output directory",
     "failed to list images", "no images", "failed to stage images"}

InitRun ==
    /\ pc = "rc_start"
    /\ \E keepArtifacts \in BOOLEAN, emitChunksJSONL \in BOOLEAN :
          run = newRun(keepArtifacts, emitChunksJSONL)
    /\ report = <<>>
    /\ proc = <<>>
    /\ lw = <<>>
    /\ chunks = <<>>
    /\ config = DefaultConfig
    /\ exOut = NoPairs
    /\ shOut = NoPairs
    /\ result = EmptyResult
    /\ result2 = EmptyResult
    /\ raw = <<>>
    /\ once = <<>>
    /\ twice = <<>>
    /\ TextIdle

RunPrepare ==
    /\ pc = "rc_start"
    /\ \E outcome \in PrepareOutcomes :
          /\ run' = [run EXCEPT !.err = IF outcome \in {"ok", "no images"} THEN "nil"
                                        ELSE outcome]
          /\ pc' = afterStage(outcome = "ok", "rc_build")
    /\ UNCHANGED <<normVars, dedupeVars, textVars, report, proc, lw>>

RunBuildPDF ==
    /\ pc = "rc_build"
    /\ \E ok \in BOOLEAN :
          /\ run' = callStage(run, "BuildPDF", ok, "PDF synthesis failed")
          /\ pc' = afterStage(ok, "rc_ocr")
    /\ UNCHANGED <<normVars, dedupeVars, textVars, report, proc, lw>>

RunOCRPDF ==
    /\ pc = "rc_ocr"
    /\ \E ok \in BOOLEAN :
          /\ run' = callStage(run, "OCRPDF", ok, "OCR failed")
          /\ pc' = afterStage(ok, "rc_cleanup_pdf")
    /\ UNCHANGED <<normVars, dedupeVars, textVars, report, proc, lw>>

RunCleanupPDF ==
    /\ pc = "rc_cleanup_pdf"
    /\ \E ok \in BOOLEAN : run' = cleanupIfRequested(run, CleanupPDF, ok)
    /\ pc' = "rc_extract"
    /\ UNCHANGED <<normVars, dedupeVars, textVars, report, proc, lw>>

RunExtractText ==
    /\ pc = "rc_extract"
    /\ \E ok \in BOOLEAN :
          /\ run' = callStage(run, "ExtractText", ok, "text extraction failed")
          /\ pc' = afterStage(ok, "rc_cleanup_ocr")
    /\ UNCHANGED <<normVars, dedupeVars, textVars, report, proc, lw>>

RunCleanupOCR ==
    /\ pc = "rc_cleanup_ocr"
    /\ \E ok \in BOOLEAN : run' = cleanupIfRequested(run, CleanupOCR, ok)
    /\ pc' = "rc_read"
    /\ UNCHANGED <<normVars, dedupeVars, textVars, report, proc, lw>>

RunReadText ==
    /\ pc = "rc_read"
    /\ \E ok \in BOOLEAN :
          /\ run' = callStage(run, "ReadFile", ok, "failed to read extracted text")
          /\ pc' = afterStage(ok, "rc_chunk")
    /\ UNCHANGED <<normVars, dedupeVars, textVars, report, proc, lw>>

\* ChunkText, FilterChrome, the optional chunks_raw.jsonl, Validate, Dedupe
RunChunkDedupe ==
    /\ pc = "rc_chunk"
    /\ \E ok \in BOOLEAN :
          /\ ~run.emitChunksJSONL => ok
          /\ run' = IF run.emitChunksJSONL
                     THEN callStage(run, "WriteChunksJSONL", ok, "failed to write chunks JSONL")
                     ELSE run
          /\ pc' = afterStage(ok, "rc_report")
    /\ UNCHANGED <<normVars, dedupeVars, textVars, report, proc, lw>>

RunWriteReport ==
    /\ pc = "rc_report"
    /\ \E ok \in BOOLEAN : run' = callWarnOnly(run, "WriteReport", ReportFile, ok)
    /\ pc' = "rc_markdown"
    /\ UNCHANGED <<normVars, dedupeVars, textVars, report, proc, lw>>

RunWriteMarkdown ==
    /\ pc = "rc_markdown"
    /\ \E outcome \in MarkdownOutcomes :
          run' = [run EXCEPT
                    !.calls = Append(@, "WriteMarkdown"),
                    !.failed = IF outcome = "ok" THEN @ ELSE @ \cup {"WriteMarkdown"},
                    !.files = IF outcome = "ok" THEN @ \cup {MarkdownFile} ELSE @,
                    !.err = IF outcome \in {"create failed", "write failed"}
                            THEN "failed to write Markdown file" ELSE @]
    /\ pc' = "rc_returned"
    /\ UNCHANGED <<normVars, dedupeVars, textVars, report, proc, lw>>

NextRun ==
    \/ RunPrepare
    \/ RunBuildPDF
    \/ RunOCRPDF
    \/ RunCleanupPDF
    \/ RunExtractText
    \/ RunCleanupOCR
    \/ RunReadText
    \/ RunChunkDedupe
    \/ RunWriteReport
    \/ RunWriteMarkdown

SpecRun == InitRun /\ [][NextRun]_vars

\* the calls of r in range(names), in the order made
RECURSIVE callsAmong(_, _)
callsAmong(calls, names) ==
    IF calls = <<>> THEN <<>>
    ELSE IF Head(calls) \in names
         THEN <<Head(calls)>> \o callsAmong(Tail(calls), names)
         ELSE callsAmong(Tail(calls), names)

called(name) == \E i \in 1..Len(run.calls) : run.calls[i] = name

succeeded(name) == called(name) /\ name \notin run.failed

\* C21: when dedupe_report.json or result.md could not be written,
\* runCommand returns a non-nil error.
WriteFailureSurfaced ==
    (/\ pc = "rc_returned"
     /\ \/ (called("WriteReport") /\ ReportFile \notin run.files)
        \/ (called("WriteMarkdown") /\ MarkdownFile \notin run.files)) =>
        run.err # "nil"

\* the four stages of C22, in the order of the code, with their errors
StageOrder == <<"BuildPDF", "OCRPDF", "ExtractText", "ReadFile">>

StageError ==
    [s \in {"BuildPDF", "OCRPDF", "ExtractText", "ReadFile"} |->
        CASE s = "BuildPDF" -> "PDF synthesis failed"
          [] s = "OCRPDF" -> "OCR failed"
          [] s = "ExtractText" -> "text extraction failed"
          [] s = "ReadFile" -> "failed to read extracted text"]

\* C22: the stages run in order, each after the one before it succeeded; when
\* stage i fails runCommand has returned that stage's error, stage i is the
\* last call it made, and neither output file is written.
StagesInOrderFailureAborts ==
    /\ \E n \in 0..Len(StageOrder) :
          callsAmong(run.calls, {StageOrder[i] : i \in 1..Len(StageOrder)})
              = SubSeq(StageOrder, 1, n)
    /\ \A i \in 1..Len(StageOrder) :
          /\ (i > 1 /\ called(StageOrder[i])) => succeeded(StageOrder[i - 1])
          /\ StageOrder[i] \in run.failed =>
                /\ pc = "rc_returned"
                /\ run.err = StageError[StageOrder[i]]
                /\ run.calls[Len(run.calls)] = StageOrder[i]
                /\ ~called("WriteChunksJSONL")
                /\ ~called("WriteReport")
                /\ ~called("WriteMarkdown")
                /\ run.files = {}
    /\ (called("WriteReport") \/ called("WriteMarkdown")) => succeeded("ReadFile")

\* C22 witness: text extraction failed after PDF synthesis and OCR succeeded.
ExtractFailureWitness ==
    /\ pc = "rc_returned"
    /\ succeeded("BuildPDF")
    /\ succeeded("OCRPDF")
    /\ "ExtractText" \in run.failed
    /\ run.err = "text extraction failed"

\* C26: CleanupArtifact is called on combined.pdf only after OCR succeeded
\* and on combined_ocr.pdf only after text extraction succeeded, and only
\* with keepArtifacts false (then it is called once the stage has
\* succeeded); a failed cleanup is not returned as an error and the next
\* stage still runs.
CleanupAfterConsumerOnly ==
    /\ called(CleanupPDF) => (succeeded("OCRPDF") /\ ~run.keepArtifacts)
    /\ called(CleanupOCR) => (succeeded("ExtractText") /\ ~run.keepArtifacts)
    /\ run.keepArtifacts => (~called(CleanupPDF) /\ ~called(CleanupOCR))
    /\ Len(callsAmong(run.calls, {CleanupPDF})) <= 1
    /\ Len(callsAmong(run.calls, {CleanupOCR})) <= 1
    /\ (~run.keepArtifacts /\ called("ExtractText")) => called(CleanupPDF)
    /\ (~run.keepArtifacts /\ called("ReadFile")) => called(CleanupOCR)
    /\ (pc = "rc_returned" /\ CleanupPDF \in run.failed) =>
          (called("ExtractText") /\ run.err \in {"nil"} \cup
              {StageError["ExtractText"], StageError["ReadFile"],
               "failed to write chunks JSONL", "failed to write Markdown file"})
    /\ (pc = "rc_returned" /\ CleanupOCR \in run.failed) =>
          (called("ReadFile") /\ run.err \in {"nil"} \cup
              {StageError["ReadFile"],
               "failed to write chunks JSONL", "failed to write Markdown file"})

\* C26 witness: both cleanups were called and failed, and the run went on to
\* write result.md and returned nil.
CleanupFailureWitness ==
    /\ pc = "rc_returned"
    /\ ~run.keepArtifacts
    /\ CleanupPDF \in run.failed
    /\ CleanupOCR \in run.failed
    /\ MarkdownFile \in run.files
    /\ run.err = "nil"

(***************************************************************************)
(* Specification SpecReport: Dedupe on a chunk list, then WriteReport on   *)
(* its result with the validated configuration, as runCommand calls them.  *)
(***************************************************************************)
MaxReportChunks == 2

ReportTexts == { <<97, 98>>, <<63, 33>>, <<97, 98, 99, 97, 98, 99>> }

ReportChunkLists ==
    UNION {{[i \in 1..n |-> MkChunk(i, t[i])] : t \in [1..n -> ReportTexts]} :
           n \in 0..MaxReportChunks}

ReportConfigs ==
    {[DefaultConfig EXCEPT !.Method = "exact"], [DefaultConfig EXCEPT !.SimHashK = 3]}

\* the values time.Now().Format(time.RFC3339) takes in the model
Timestamps == {"2024-01-01T00:00:00Z", "2024-01-01T00:00:01Z"}

InitReport ==
    /\ pc = "rp_start"
    /\ chunks \in ReportChunkLists
    /\ config \in ReportConfigs
    /\ \E inputImages \in 1..2 :
          report = [json |-> <<>>, inputImages |-> inputImages, err |-> "nil"]
    /\ run = <<>>
    /\ proc = <<>>
    /\ lw = <<>>
    /\ exOut = NoPairs
    /\ shOut = NoPairs
    /\ result = EmptyResult
    /\ result2 = EmptyResult
    /\ raw = <<>>
    /\ once = <<>>
    /\ twice = <<>>
    /\ TextIdle

ReportDedupe ==
    /\ pc = "rp_start"
    /\ result' \in Dedupe(chunks, Validate(config))
    /\ pc' = "rp_deduped"
    /\ UNCHANGED <<chunks, config, exOut, shOut, result2, normVars, textVars, execVars>>

ReportWrite ==
    /\ pc = "rp_deduped"
    /\ \E timestamp \in Timestamps, outcome \in {"ok", "create failed", "write failed"} :
          report' = WriteReport(result, report.inputImages, Validate(config), timestamp, outcome)
    /\ pc' = "rp_written"
    /\ UNCHANGED <<dedupeVars, normVars, textVars, run, proc, lw>>

NextReport == ReportDedupe \/ ReportWrite

SpecReport == InitReport /\ [][NextReport]_vars

\* the keys of a JSON object, and the value under a key
keysOf(obj) == {obj[i].key : i \in 1..Len(obj)}

valueOf(obj, key) == obj[CHOOSE i \in 1..Len(obj) : obj[i].key = key].value

\* the top-level keys of the report are the nine the specification names
TopLevelKeys ==
    pc = "rp_written" =>
        /\ Len(report.json) = 9
        /\ keysOf(report.json) =
              {"input_images", "input_chunks", "kept_chunks", "dropped_chunks",
               "exact_duplicates", "near_duplicates", "config", "dropped", "timestamp"}

\* C23: every drop record in the report's dropped array has exactly the keys
\* chunk_id, reason, matched_chunk_id, distance and preview, and the
\* top-level keys are the nine named ones.
DropRecordJSONKeys ==
    pc = "rp_written" =>
        /\ TopLevelKeys
        /\ \A i \in 1..Len(valueOf(report.json, "dropped")) :
              keysOf(valueOf(report.json, "dropped")[i]) =
                  {"chunk_id", "reason", "matched_chunk_id", "distance", "preview"}

\* what the code writes: the drop records carry the Go field names
DropRecordGoFieldKeys ==
    pc = "rp_written" =>
        \A i \in 1..Len(valueOf(report.json, "dropped")) :
            keysOf(valueOf(report.json, "dropped")[i]) =
                {"ChunkID", "Reason", "MatchedChunkID", "Distance", "Preview"}

====
